---- MODULE Spec2Model ----
(***************************************************************************)
(* icedrop: the framed-message endpoint (endpoint.rs), its frame handlers  *)
(* (handlers/*.rs) and the client / server bootstrap (client.rs,           *)
(* server.rs), as a state machine.                                         *)
(*                                                                         *)
(* Specifications:                                                         *)
(*   Spec         one session: the shipped client against the shipped      *)
(*                server, over two ordered reliable byte streams.          *)
(*   FairSpec     Spec with weak fairness of every task's step.            *)
(*   DispatchSpec one endpoint with an arbitrary handler registry, a raw   *)
(*                peer that writes arbitrary frames to it, and an external *)
(*                holder of its handle that calls shutdown().              *)
(*   ReturnSpec   TruncSpec with an external caller of shutdown().         *)
(*   DiscoverySpec  the discovery server and the connections it accepts.   *)
(*   PresendSpec  FileSender::send_file and the receiving server.          *)
(*   WriteSpec    EndpointHandle::send_frame at byte granularity, called   *)
(*                concurrently by several tasks on clones of one handle.   *)
(*   OrderSpec    WriteSpec with frames that tell their sender.            *)
(*   TruncSpec    an endpoint whose raw peer closes the stream, at a frame *)
(*                boundary or inside a frame.                              *)
(*   AcceptSpec   Server::run: the accept loop and the session tasks.      *)
(*   CodecSpec    the bytes of send_frame against the reads of the loop.   *)
(*   FailSpec     an endpoint whose stream writes may start to fail, with  *)
(*                an external caller of send_frame() and shutdown().       *)
(*   PreemptSpec  an endpoint, a raw peer and a caller of shutdown(), with  *)
(*                weak fairness of the endpoint's steps.                   *)
(*   RecvSpec     the receiver against a raw peer that writes well-formed, *)
(*                terminal and malformed data frames in any order.         *)
(***************************************************************************)
EXTENDS Integers, Sequences, FiniteSets, TLC

(***************************************************************************)
(* Bounds of the model.                                                    *)
(***************************************************************************)
\* send_segment's chunk size, 1024 * 512 in the code, scaled down.
ChunkSize == 2
\* Longest source file of the counting pattern, in bytes.
MaxFileLen == 34
\* Longest source file with arbitrary content, in bytes.
MaxArbLen == 5
\* DispatchSpec: longest handler registry.
MaxHandlers == 2
\* DispatchSpec: number of frames the raw peer writes.
MaxInject == 2
\* DispatchSpec: number of shutdown() calls of the external handle holder.
MaxShutdownCalls == 2
\* WriteSpec: number of tasks that call send_frame concurrently.
NProducers == 2
\* WriteSpec: number of frames each task sends, one after the other.
FramesPerProducer == 1
\* OrderSpec: number of frames each task sends, one after the other.
FramesInOrder == 2
\* DiscoverySpec: connections the discovery server accepts.
MaxPeers == 2
\* PresendSpec: the chunk of send_file and of the receiving server (4 KB in
\* the code), and the longest file sent.
PresendChunk == 2
MaxSendLen == 4
\* AcceptSpec: connections accepted, frames a session handles, accept() failures.
MaxConns == 2
MaxSessionFrames == 2
MaxAcceptErrs == 1
\* CodecSpec: number of frames written to the stream.
MaxCodecFrames == 2
\* RecvSpec: number of data frames the raw peer writes to the receiver.
MaxRecvFrames == 9
\* TruncSpec: longest payload a frame cut short by the raw peer declares.
MaxCutLen == 2

(***************************************************************************)
(* Program constants.                                                      *)
(***************************************************************************)
T_HandshakeRequest == 1
T_HandshakeResponse == 2
T_FileTransferData == 3
T_FileTransferAck == 4
T_EndSession == 99
\* A frame type no handler of the repository declares.
T_Presend == 200
\* discovery/msg.rs: the type of the discovery handshake frame.
HANDSHAKE_FRAME_TYPE == 1
\* The receiver acks when windowed_recv_segments >= 8.
AckEvery == 8
\* channel(1): the capacity of the shutdown channel.
ShutdownCapacity == 1
\* The 6-byte frame header: u16 frame type, u32 payload length.
HeaderLen == 6

U16Mod == 65536

EP == {"client", "server"}
Peer(e) == IF e = "client" THEN "server" ELSE "client"

Min(a, b) == IF a < b THEN a ELSE b

(***************************************************************************)
(* byteorder::LittleEndian                                                 *)
(***************************************************************************)
WriteU16LE(n) == << (n % U16Mod) % 256, ((n % U16Mod) \div 256) % 256 >>

\* The u32 values of the model stay below 2^31 (TLC's integers are 32-bit), so
\* the cast to u32 changes none of them.
WriteU32LE(n) ==
    << n % 256, (n \div 256) % 256, (n \div 65536) % 256, (n \div 16777216) % 256 >>

\* Callers pass at least 2, respectively 4, bytes.
ReadU16LE(buf) == buf[1] + 256 * buf[2]

ReadU32LE(buf) == buf[1] + 256 * buf[2] + 65536 * buf[3] + 16777216 * buf[4]

\* Faulty variant: the buffer is resized before the data is in it.
Resize_ZeroFilled(buf, n) == [i \in 1..n |-> 0]

\* Vec::resize(new_len, 0): truncate, or pad with zero bytes.
Resize(buf, n) == [i \in 1..n |-> IF i <= Len(buf) THEN buf[i] ELSE 0]

(***************************************************************************)
(* Frames.  On a stream a frame is [type, payload]; a parsed frame is a    *)
(* record [k, segment_idx, chunk_size, data] (fields a frame kind does not *)
(* have are 0 and << >>).                                                  *)
(***************************************************************************)
WireFrame(t, payload) == [type |-> t, payload |-> payload]

Parsed(k, idx, size, data) ==
    [k |-> k, segment_idx |-> idx, chunk_size |-> size, data |-> data]

\* Frame::frame_type
FrameType(f) ==
    CASE f.k = "HandshakeRequest" -> T_HandshakeRequest
      [] f.k = "HandshakeResponse" -> T_HandshakeResponse
      [] f.k = "FileTransferData" -> T_FileTransferData
      [] f.k = "FileTransferAck" -> T_FileTransferAck
      [] f.k = "EndSession" -> T_EndSession

\* Frame::to_bytes of each frame kind: the payload.
\* A HandshakeRequest carries its name in `data`.
PayloadBytes(f) ==
    CASE f.k = "HandshakeRequest" -> WriteU32LE(Len(f.data)) \o f.data
      [] f.k = "HandshakeResponse" -> << >>
      [] f.k = "FileTransferData" ->
            WriteU32LE(f.segment_idx) \o WriteU32LE(f.chunk_size) \o f.data
      [] f.k = "FileTransferAck" -> WriteU32LE(f.segment_idx)
      [] f.k = "EndSession" -> << >>

\* Faulty variant: the length field counts the header too.
FrameToBytes_LenWithHeader(f) ==
    LET payload == PayloadBytes(f)
    IN  WriteU16LE(FrameType(f)) \o WriteU32LE(Len(payload) + 6) \o payload

\* FrameWithHeader::to_bytes
FrameToBytes(f) ==
    LET payload == PayloadBytes(f)
    IN  WriteU16LE(FrameType(f)) \o WriteU32LE(Len(payload)) \o payload

\* What send_frame puts on the stream, as the frame the peer's reader decodes.
Encode(f) == WireFrame(FrameType(f), PayloadBytes(f))

(***************************************************************************)
(* Frame::try_parse of each frame kind.  The result is Skip (the buffer is *)
(* handed back), Ok (a parsed frame) or Panic (an out-of-range slice).     *)
(***************************************************************************)
PSkip(buf) == [tag |-> "Skip", buf |-> buf, frame |-> Parsed("None", 0, 0, << >>)]
POk(f) == [tag |-> "Ok", buf |-> << >>, frame |-> f]
PPanic == [tag |-> "Panic", buf |-> << >>, frame |-> Parsed("None", 0, 0, << >>)]

TryParseHandshakeRequest(t, buf) ==
    IF t # T_HandshakeRequest THEN PSkip(buf)
    ELSE POk(Parsed("HandshakeRequest", 0, 0, << >>))

TryParseHandshakeResponse(t, buf) ==
    IF t # T_HandshakeResponse THEN PSkip(buf)
    ELSE POk(Parsed("HandshakeResponse", 0, 0, << >>))

TryParseEndSession(t, buf) ==
    IF t # T_EndSession THEN PSkip(buf)
    ELSE POk(Parsed("EndSession", 0, 0, << >>))

TryParseAck(t, buf) ==
    IF t # T_FileTransferAck THEN PSkip(buf)
    ELSE IF Len(buf) < 4 THEN PPanic
    ELSE POk(Parsed("FileTransferAck", ReadU32LE(buf), 0, << >>))

\* The offset at which FileTransferDataFrame::try_parse splits the payload.
DataOffset == 8

TryParseData(t, buf) ==
    IF t # T_FileTransferData THEN PSkip(buf)
    ELSE IF Len(buf) < DataOffset THEN PPanic
    ELSE LET segment_idx == ReadU32LE(SubSeq(buf, 1, 4))
             chunk_size == ReadU32LE(SubSeq(buf, 5, 8))
             data == SubSeq(buf, DataOffset + 1, Len(buf))
         IN  POk(Parsed("FileTransferData", segment_idx, chunk_size,
                        Resize(data, chunk_size)))

\* def_frame_selector!(FileTransferNextFrame, HandshakeResponseFrame,
\* FileTransferAckFrame): the members are tried in order.
TryParseNext(t, buf) ==
    LET r == TryParseHandshakeResponse(t, buf)
    IN  IF r.tag # "Skip" THEN r ELSE TryParseAck(t, r.buf)

(***************************************************************************)
(* Handlers.  A registry is a sequence of handler kinds; a handler's       *)
(* IncomingFrame type decides which frames it takes.                       *)
(***************************************************************************)
HandlerKinds == {"Handshake", "FileTransferNext", "FileTransferReceiving", "EndSession"}

\* <H as FrameHandler>::IncomingFrame::try_parse
TryParse(kind, t, buf) ==
    CASE kind = "Handshake" -> TryParseHandshakeRequest(t, buf)
      [] kind = "FileTransferNext" -> TryParseNext(t, buf)
      [] kind = "FileTransferReceiving" -> TryParseData(t, buf)
      [] kind = "EndSession" -> TryParseEndSession(t, buf)

\* The frame types a handler's IncomingFrame declares.
DeclaredTypes(kind) ==
    CASE kind = "Handshake" -> {T_HandshakeRequest}
      [] kind = "FileTransferNext" -> {T_HandshakeResponse, T_FileTransferAck}
      [] kind = "FileTransferReceiving" -> {T_FileTransferData}
      [] kind = "EndSession" -> {T_EndSession}

\* Faulty variant: the end-session handler is not registered.
ClientHandlers_NoEndSession == << "FileTransferNext" >>

\* Client::run registers the sender and the end-session handler.
ClientHandlers == << "FileTransferNext", "EndSession" >>

\* Server::serve_client registers the handshake and the receiving handler.
ServerHandlers == << "Handshake", "FileTransferReceiving" >>

\* The name of Client::run's HandshakeRequest: "test".
ClientName == << 116, 101, 115, 116 >>


(***************************************************************************)
(* State.                                                                  *)
(***************************************************************************)
VARIABLES
    handlers,       \* Endpoint.handlers: the registry of each endpoint
    wire,           \* wire[e]: the frames written towards e that e has not read yet
    sent,           \* sent[e]: every frame e has written, in write order (history)
    result,         \* Endpoint::run of e: "running", "ok", "err_io", "err_unhandled",
                    \* "panic"; "raw" for a peer that is not an endpoint
    err_frame_type, \* the frame type an "err_unhandled" result names
    rd,             \* the read loop of e: "read", or "handler" while it awaits a handler
    active,         \* the handler invocations of e that have started and not completed
    dispatched,     \* every frame e has decoded, in decode order (history)
    invoked,        \* every handler invocation of e, in start order (history)
    completed,      \* the invocations of e whose future has resolved (history)
    shutdown_ch,    \* the tokens in e's shutdown channel
    shutdown_res,   \* the result of the latest shutdown() call on e's handle, or "none"
    shutdown_left,  \* the shutdown() calls the external handle holder has left
    inject_left,    \* the frames the raw peer has left to write
    hs_task,        \* Client::run's spawned handshake task: "pending" or "done"
    file,           \* the sender's source file
    file_pos,       \* the read position of the source file
    file_opt,       \* FileTransferNextHandler.file is Some
    cur_segment,    \* FileTransferNextHandler.cur_segment
    task,           \* the sending task the sender spawns: pc, endpoint, segment_id
    events,         \* the FileTransferEvents passed to the callback, in order
    out_file,       \* the receiver's output file
    out_flushed,    \* the output file has been flushed
    windowed_recv_segments, \* FileTransferReceivingHandler.windowed_recv_segments
    w_todo,         \* WriteSpec: the frames each task has left to send
    w_pc,           \* WriteSpec: each task's place in send_frame
    w_buf,          \* WriteSpec: the bytes of the task's frame not yet written
    w_lock,         \* WriteSpec: the holder of the stream_wr mutex, 0 when free
    w_stream,       \* WriteSpec: the bytes on the stream
    w_order,        \* WriteSpec: the frames in the order their writers took the mutex
    closed,         \* closed[e]: the stream towards e is open, or the bytes of an
                    \* unfinished frame the raw peer left on it when it closed it
    wr_fail,        \* wr_fail[e]: writes to e's stream fail (the connection is broken)
    send_res,       \* the result of the external handle holder's send_frame on e's
                    \* handle, or "none"
    c_todo,         \* CodecSpec: the frames the writer has left to send
    c_pending,      \* CodecSpec: the bytes of the current frame not yet on the stream
    c_stream,       \* CodecSpec: the bytes on the stream the reader has not consumed
    c_sent,         \* CodecSpec: the frames given to send_frame, in order (history)
    c_out,          \* CodecSpec: the (frame_type, payload) pairs the reader decoded
    a_loop,         \* AcceptSpec: Server::run's loop, "accepting" or "stopped"
    a_conns,        \* AcceptSpec: the session of each connection: "none" before it is
                    \* accepted, "running", or the result of its endpoint's run
    a_frames,       \* AcceptSpec: the frames each session has handled
    a_errs,         \* AcceptSpec: the accept() calls that may still fail
    hosts,          \* DiscoverySpec: DiscoveryServerInner.hosts, as the connection
                    \* that inserted the entry of each registered address
    d_pc,           \* DiscoverySpec: each connection's place in handle_connection
    d_ip,           \* DiscoverySpec: the peer address of each connection
    ps_file,        \* PresendSpec: the file FileSender::send_file sends
    ps_pc,          \* PresendSpec: send_file's place
    ps_pos,         \* PresendSpec: the read position of the file
    to_send,        \* PresendSpec: send_file's to_send
    ps_socket,      \* PresendSpec: the bytes written to the socket after the
                    \* presend frame
    total_bytes,    \* PresendSpec: PresendMessage.total_bytes of the presend frame
    rs_pc,          \* PresendSpec: ReceivingServer::handle_connection's place
    to_recv,        \* PresendSpec: handle_connection's to_recv
    rs_got          \* PresendSpec: the bytes handle_connection has read off the
                    \* socket after the presend frame

endpointVars == << handlers, wire, sent, result, err_frame_type, rd, active,
                   dispatched, invoked, completed, shutdown_ch >>
externVars == << shutdown_res, shutdown_left, inject_left, hs_task >>
senderVars == << file, file_pos, file_opt, cur_segment, task, events >>
receiverVars == << out_file, out_flushed, windowed_recv_segments >>
writeVars == << w_todo, w_pc, w_buf, w_lock, w_stream, w_order >>
closeVars == << closed, wr_fail, send_res >>
codecVars == << c_todo, c_pending, c_stream, c_sent, c_out >>
acceptVars == << a_loop, a_conns, a_frames, a_errs >>
discoveryVars == << hosts, d_pc, d_ip >>
presendVars == << ps_file, ps_pc, ps_pos, to_send, ps_socket, total_bytes, rs_pc,
                 to_recv, rs_got >>
legacyVars == << discoveryVars, presendVars >>
auxVars == << closeVars, codecVars, acceptVars, legacyVars >>
vars == << endpointVars, externVars, senderVars, receiverVars, writeVars, auxVars >>

(***************************************************************************)
(* Source files: every file over FileByte up to MaxArbLen bytes, and the   *)
(* counting pattern 1, 2, 3, ... of every length up to MaxFileLen.         *)
(***************************************************************************)
FileByte == {0, 255}

Pattern(L) == [i \in 1..L |-> ((i - 1) % 255) + 1]

SourceFiles ==
    UNION {[1..L -> FileByte] : L \in 0..MaxArbLen} \cup {Pattern(L) : L \in 0..MaxFileLen}

(***************************************************************************)
(* EndpointHandle::send_frame: the frame is encoded and written whole to   *)
(* the stream, under the stream_wr mutex (WriteSpec has the bytes).        *)
(***************************************************************************)
SendFrame(e, f) ==
    /\ wire' = [wire EXCEPT ![Peer(e)] = Append(@, Encode(f))]
    /\ sent' = [sent EXCEPT ![e] = Append(@, Encode(f))]

\* The write half of e's stream has been dropped by every holder: run has
\* ended (the endpoint and its handlers' handles are gone) and no spawned task
\* holds a clone of the handle.
WriteClosed(e) ==
    /\ result[e] \notin {"running", "raw"}
    /\ ~(task.pc = "running" /\ task.ep = e)
    /\ ~(e = "client" /\ hs_task = "pending")

(***************************************************************************)
(* Endpoint::handle_incoming_frames                                        *)
(***************************************************************************)
NoFrame == Parsed("None", 0, 0, << >>)

\* Faulty variant: the loop does not return at the first handler that takes the frame.
Walk_LastMatch(hs, i, t, buf) ==
    LET takes == {j \in i..Len(hs) : TryParse(hs[j], t, buf).tag # "Skip"}
    IN  IF takes = {} THEN [tag |-> "None", h |-> 0, frame |-> NoFrame, buf |-> buf]
        ELSE LET j == CHOOSE x \in takes : \A y \in takes : y <= x
                 r == TryParse(hs[j], t, buf)
             IN  [tag |-> r.tag, h |-> j, frame |-> r.frame, buf |-> buf]

\* The for loop over the handlers: the first handler whose try_parse does not
\* skip takes the frame; a skipping handler hands the buffer on.
RECURSIVE Walk(_, _, _, _)
Walk(hs, i, t, buf) ==
    IF i > Len(hs) THEN [tag |-> "None", h |-> 0, frame |-> NoFrame, buf |-> buf]
    ELSE LET r == TryParse(hs[i], t, buf)
         IN  IF r.tag = "Skip" THEN Walk(hs, i + 1, t, r.buf)
             ELSE [tag |-> r.tag, h |-> i, frame |-> r.frame, buf |-> buf]

\* Faulty variant: the handler's future is spawned, not awaited.
AfterDispatch_Detached == "read"

\* The read loop while a handler's future is awaited.
AfterDispatch == "handler"

\* Faulty variant: a frame no handler takes is dropped and the loop goes on.
UnhandledResult_Ignored == "running"

\* No handler took the frame: Err("No handlers can handle frame: {frame_type}").
UnhandledResult == "err_unhandled"

\* Faulty variant: the read loop ends successfully on an error.
LoopResult_Completes(err) == "ok"

\* net_fut returns the Err of handle_incoming_frames, and run returns it.
LoopResult(err) == err

\* run ends: the read loop and the handler futures in progress are dropped.
EndRun(e, how) ==
    /\ result' = [result EXCEPT ![e] = how]
    /\ active' = [active EXCEPT ![e] = {}]

\* One frame is read off the stream and handed to the handlers.
Dispatch(e) ==
    /\ result[e] = "running"
    /\ rd[e] = "read"
    /\ wire[e] # << >>
    /\ LET fr == Head(wire[e])
           n == Len(dispatched[e]) + 1
           w == Walk(handlers[e], 1, fr.type, fr.payload)
       IN  /\ wire' = [wire EXCEPT ![e] = Tail(@)]
           /\ dispatched' = [dispatched EXCEPT ![e] = Append(@, fr)]
           /\ IF w.tag = "Ok"
              THEN /\ active' = [active EXCEPT ![e] =
                                    @ \cup {[n |-> n, h |-> w.h, frame |-> w.frame]}]
                   /\ invoked' = [invoked EXCEPT ![e] =
                                    Append(@, [n |-> n, h |-> w.h, payload |-> w.buf])]
                   /\ rd' = [rd EXCEPT ![e] = AfterDispatch]
                   /\ UNCHANGED << result, err_frame_type >>
              ELSE /\ EndRun(e, IF w.tag = "None" THEN LoopResult(UnhandledResult)
                                                    ELSE "panic")
                   /\ err_frame_type' = [err_frame_type EXCEPT ![e] =
                                            IF w.tag = "None" THEN fr.type ELSE @]
                   /\ UNCHANGED << invoked, rd >>
    /\ UNCHANGED << handlers, sent, completed, shutdown_ch >>
    /\ UNCHANGED << externVars, senderVars, receiverVars, writeVars, auxVars >>

\* A stream that is open, and the ways a stream can end: `hdr` bytes of a
\* header, and when the header is whole, `pay` bytes of the `len` it declares.
OpenStream == [open |-> TRUE, hdr |-> 0, len |-> 0, pay |-> 0]
BoundaryCut == [open |-> FALSE, hdr |-> 0, len |-> 0, pay |-> 0]
Cuts ==
    {[open |-> FALSE, hdr |-> h, len |-> 0, pay |-> 0] : h \in 0..(HeaderLen - 1)}
    \cup {c \in {[open |-> FALSE, hdr |-> HeaderLen, len |-> l, pay |-> q] :
                    l \in 1..MaxCutLen, q \in 0..(MaxCutLen - 1)} : c.pay < c.len}

\* AsyncReadExt::read_exact on a stream that ends after `avail` bytes: Ok(len)
\* when the buffer was filled, Err(UnexpectedEof) otherwise.
ReadExact(avail, len) ==
    IF avail >= len THEN [ok |-> TRUE, size |-> len] ELSE [ok |-> FALSE, size |-> 0]

\* handle_incoming_frames on a stream that ends with the cut c: the error run
\* returns ("frame" when both reads succeed).
TruncatedResult(c) ==
    LET header == ReadExact(c.hdr, HeaderLen)
    IN  IF ~header.ok THEN "err_io"
        ELSE IF header.size # HeaderLen THEN "err_peer_closed"
        ELSE LET body == ReadExact(c.pay, c.len)
             IN  IF ~body.ok THEN "err_io"
                 ELSE IF body.size # c.len THEN "err_peer_closed"
                 ELSE "frame"

\* read_exact on a stream the peer has closed.
ReadEof(e) ==
    /\ result[e] = "running"
    /\ rd[e] = "read"
    /\ wire[e] = << >>
    /\ ~closed[e].open \/ WriteClosed(Peer(e))
    /\ LET c == IF closed[e].open THEN BoundaryCut ELSE closed[e]
       IN  EndRun(e, LoopResult(TruncatedResult(c)))
    /\ UNCHANGED << handlers, wire, sent, err_frame_type, rd, dispatched, invoked,
                    completed, shutdown_ch >>
    /\ UNCHANGED << externVars, senderVars, receiverVars, writeVars, auxVars >>

\* Faulty variant: the channel is looked at only when a frame has arrived.
ShutdownSelected_BetweenFrames(e) == shutdown_ch[e] > 0 /\ wire[e] # << >>

\* select! polls shutdown_rx.recv() whatever the read loop is waiting for: the
\* branch is ready when the channel holds a token.
ShutdownSelected(e) == shutdown_ch[e] > 0

\* Endpoint::run's select!: the shutdown branch completes.
RunReturnOk(e) ==
    /\ result[e] = "running"
    /\ ShutdownSelected(e)
    /\ shutdown_ch' = [shutdown_ch EXCEPT ![e] = @ - 1]
    /\ EndRun(e, "ok")
    /\ UNCHANGED << handlers, wire, sent, err_frame_type, rd, dispatched, invoked,
                    completed >>
    /\ UNCHANGED << externVars, senderVars, receiverVars, writeVars, auxVars >>

\* A handler's future resolves: the read loop goes on.
Complete(e, a) ==
    /\ active' = [active EXCEPT ![e] = @ \ {a}]
    /\ completed' = [completed EXCEPT ![e] = @ \cup {a.n}]
    /\ rd' = [rd EXCEPT ![e] = "read"]
    /\ result' = result

\* A handler panics: run unwinds.
HandlerPanic(e) ==
    /\ EndRun(e, "panic")
    /\ UNCHANGED << rd, completed >>

\* stream_wr_locked.write_all(&buf).await? in send_frame: "ok", or "err" when
\* the write fails.
SendOutcome(e) == IF wr_fail[e] THEN "err" ELSE "ok"

\* A handler's send_frame(..).await.unwrap(): the frame is written and the
\* handler's future resolves, or the unwrap of the Err panics.
HandlerSend(e, a, f) ==
    IF SendOutcome(e) = "ok"
    THEN /\ SendFrame(e, f)
         /\ Complete(e, a)
    ELSE /\ HandlerPanic(e)
         /\ UNCHANGED << wire, sent >>

(***************************************************************************)
(* HandshakeHandler::handle_frame                                          *)
(***************************************************************************)
HandleHandshake(e) ==
    \E a \in active[e] :
        /\ result[e] = "running"
        /\ handlers[e][a.h] = "Handshake"
        /\ HandlerSend(e, a, Parsed("HandshakeResponse", 0, 0, << >>))
        /\ UNCHANGED << handlers, err_frame_type, dispatched, invoked, shutdown_ch >>
        /\ UNCHANGED << externVars, senderVars, receiverVars, writeVars, auxVars >>

(***************************************************************************)
(* FileTransferNextHandler                                                 *)
(***************************************************************************)
\* self.cur_segment as usize * 1024 * 512
SegmentSentBytes(segment) == segment * ChunkSize

\* The sanity check of an ack: the handler panics when it holds.
AckUnexpected(segment_idx, cur) == segment_idx < cur

\* The segment index of the first data frame of the sending task.
FirstSegmentId == 0

HandleNext(e) ==
    \E a \in active[e] :
        /\ result[e] = "running"
        /\ handlers[e][a.h] = "FileTransferNext"
        /\ IF a.frame.k = "FileTransferAck"
           THEN IF AckUnexpected(a.frame.segment_idx, cur_segment)
                THEN /\ HandlerPanic(e)
                     /\ UNCHANGED senderVars
                ELSE /\ cur_segment' = a.frame.segment_idx
                     /\ events' = Append(events,
                            [ev |-> "SegmentSent", segment_idx |-> a.frame.segment_idx,
                             bytes_sent |-> SegmentSentBytes(a.frame.segment_idx)])
                     /\ Complete(e, a)
                     /\ UNCHANGED << file, file_pos, file_opt, task >>
           ELSE IF ~file_opt
                THEN \* self.file.take().unwrap() on None
                     /\ HandlerPanic(e)
                     /\ UNCHANGED senderVars
                ELSE /\ file_opt' = FALSE
                     /\ task' = [pc |-> "running", ep |-> e, segment_id |-> FirstSegmentId]
                     /\ Complete(e, a)
                     /\ UNCHANGED << file, file_pos, cur_segment, events >>
        /\ UNCHANGED << handlers, wire, sent, err_frame_type, dispatched, invoked,
                        shutdown_ch >>
        /\ UNCHANGED << externVars, receiverVars, writeVars, auxVars >>

\* The sizes the successive file.read calls of one send_segment may return at
\* most (a read returns at least one byte unless the file is at its end): a
\* first read of at most r bytes, and then reads that fill the buffer.
ReadPatterns == { << r >> : r \in 1..ChunkSize }

\* send_segment's read loop: the number of bytes in the buffer when it ends.
RECURSIVE ReadLoop(_, _, _, _, _)
ReadLoop(f, pos, total, reads, k) ==
    IF total >= ChunkSize THEN total
    ELSE LET cap == IF k <= Len(reads) THEN Min(reads[k], ChunkSize - total)
                    ELSE ChunkSize - total
             read_size == Min(cap, Len(f) - (pos + total))
         IN  IF read_size = 0 THEN total
             ELSE ReadLoop(f, pos, total + read_size, reads, k + 1)

\* Faulty variant: the loop breaks at the first chunk that is not full.
TaskAfter_ShortStops(bytes_sent) == IF bytes_sent < ChunkSize THEN "done" ELSE "running"

\* The task has sent its last frame: the loop breaks when bytes_sent == 0.
TaskAfter(bytes_sent) == IF bytes_sent = 0 THEN "done" ELSE "running"

\* One turn of the sending task's loop: send_segment, then segment_id += 1.
TaskSendSegment ==
    /\ task.pc = "running"
    /\ \E reads \in ReadPatterns :
          LET total_read_size == ReadLoop(file, file_pos, 0, reads, 1)
              buf == SubSeq(file, file_pos + 1, file_pos + total_read_size)
          IN  /\ file_pos' = file_pos + total_read_size
              /\ IF SendOutcome(task.ep) = "ok"
                 THEN /\ SendFrame(task.ep, Parsed("FileTransferData", task.segment_id,
                                                   total_read_size, buf))
                      /\ task' = [task EXCEPT !.segment_id = @ + 1,
                                              !.pc = TaskAfter(total_read_size)]
                 ELSE \* .unwrap() of the Err in send_segment: the task panics
                      /\ task' = [task EXCEPT !.pc = "panicked"]
                      /\ UNCHANGED << wire, sent >>
    /\ UNCHANGED << handlers, result, err_frame_type, rd, active, dispatched, invoked,
                    completed, shutdown_ch >>
    /\ UNCHANGED << file, file_opt, cur_segment, events >>
    /\ UNCHANGED << externVars, receiverVars, writeVars, auxVars >>

(***************************************************************************)
(* FileTransferReceivingHandler::handle_frame                              *)
(***************************************************************************)
\* self.file.write_all(&frame.data): the data is appended to the output file.
WriteAll(out, data) == out \o data

\* Faulty variant: the ack is one frame late.
AckDue_Late(count) == count > AckEvery

\* An ack is due when the counter, after the increment, has reached AckEvery.
AckDue(count) == count >= AckEvery

\* Faulty variant: the ack carries the position of the frame in its group.
AckSegmentIdx_InGroup(segment_idx) == (segment_idx + 1) % AckEvery

\* The segment index an ack carries.
AckSegmentIdx(segment_idx) == segment_idx + 1

\* Faulty variant: the test for the terminal frame is missing.
TerminalFrame_Never(frame) == FALSE

\* The terminal frame: frame.chunk_size == 0.
TerminalFrame(frame) == frame.chunk_size = 0

\* Faulty variant: the counter is not reset when the ack is sent.
CounterAfterAck_Kept(count) == count

\* self.windowed_recv_segments = 0 when an ack is due.
CounterAfterAck(count) == 0

HandleReceiving(e) ==
    \E a \in active[e] :
        /\ result[e] = "running"
        /\ handlers[e][a.h] = "FileTransferReceiving"
        /\ IF TerminalFrame(a.frame)
           THEN /\ out_flushed' = TRUE
                /\ HandlerSend(e, a, Parsed("EndSession", 0, 0, << >>))
                /\ UNCHANGED << out_file, windowed_recv_segments >>
           ELSE /\ out_file' = WriteAll(out_file, a.frame.data)
                /\ IF AckDue(windowed_recv_segments + 1)
                   THEN /\ windowed_recv_segments' =
                                CounterAfterAck(windowed_recv_segments + 1)
                        /\ HandlerSend(e, a, Parsed("FileTransferAck",
                                            AckSegmentIdx(a.frame.segment_idx), 0, << >>))
                   ELSE /\ windowed_recv_segments' = windowed_recv_segments + 1
                        /\ UNCHANGED << wire, sent >>
                        /\ Complete(e, a)
                /\ UNCHANGED out_flushed
        /\ UNCHANGED << handlers, err_frame_type, dispatched, invoked, shutdown_ch >>
        /\ UNCHANGED << externVars, senderVars, writeVars, auxVars >>

(***************************************************************************)
(* EndSessionHandler::handle_frame and EndpointHandle::shutdown            *)
(***************************************************************************)
\* Sender::send(..).await on the channel: "ok", "wait" while it is full, or
\* "closed" (a send error) once the receiver has been dropped.
ChannelSend(tokens, receiver_alive) ==
    IF ~receiver_alive THEN "closed"
    ELSE IF tokens < ShutdownCapacity THEN "ok" ELSE "wait"

\* Faulty variant: the channel is unbounded.
ChannelTrySend_Unbounded(tokens, receiver_alive) ==
    IF ~receiver_alive THEN "closed" ELSE "ok"

\* Sender::try_send on the channel: "ok", "full", or "closed" once run has
\* ended and dropped the receiver.
ChannelTrySend(tokens, receiver_alive) ==
    IF ~receiver_alive THEN "closed"
    ELSE IF tokens < ShutdownCapacity THEN "ok" ELSE "full"

HandleEndSession(e) ==
    \E a \in active[e] :
        /\ result[e] = "running"
        /\ handlers[e][a.h] = "EndSession"
        /\ LET r == ChannelSend(shutdown_ch[e], result[e] = "running")
           IN  /\ r # "wait"
               /\ IF r = "ok"
                  THEN /\ shutdown_ch' = [shutdown_ch EXCEPT ![e] = @ + 1]
                       /\ Complete(e, a)
                  ELSE \* .unwrap() of a send error
                       /\ HandlerPanic(e)
                       /\ UNCHANGED shutdown_ch
        /\ UNCHANGED << handlers, wire, sent, err_frame_type, dispatched, invoked >>
        /\ UNCHANGED << externVars, senderVars, receiverVars, writeVars, auxVars >>

\* An external holder of e's handle calls shutdown().
ShutdownCall(e) ==
    /\ shutdown_left > 0
    /\ result[e] # "raw"
    /\ shutdown_left' = shutdown_left - 1
    /\ LET r == ChannelTrySend(shutdown_ch[e], result[e] = "running")
       IN  /\ shutdown_res' = [shutdown_res EXCEPT ![e] = r]
           /\ shutdown_ch' = [shutdown_ch EXCEPT ![e] = IF r = "ok" THEN @ + 1 ELSE @]
    /\ UNCHANGED << handlers, wire, sent, result, err_frame_type, rd, active,
                    dispatched, invoked, completed >>
    /\ UNCHANGED << inject_left, hs_task >>
    /\ UNCHANGED << senderVars, receiverVars, writeVars, auxVars >>

(***************************************************************************)
(* Client::run's handshake task, and the raw peer of DispatchSpec          *)
(***************************************************************************)
HandshakeTask ==
    /\ hs_task = "pending"
    /\ hs_task' = "done"
    /\ IF SendOutcome("client") = "ok"
       THEN SendFrame("client", Parsed("HandshakeRequest", 0, 0, ClientName))
       ELSE UNCHANGED << wire, sent >>
    /\ UNCHANGED << handlers, result, err_frame_type, rd, active, dispatched, invoked,
                    completed, shutdown_ch >>
    /\ UNCHANGED << shutdown_res, shutdown_left, inject_left >>
    /\ UNCHANGED << senderVars, receiverVars, writeVars, auxVars >>

\* The frames the raw peer may write.
InjectFrames ==
    { Encode(Parsed("HandshakeRequest", 0, 0, ClientName)),
      Encode(Parsed("HandshakeResponse", 0, 0, << >>)),
      Encode(Parsed("FileTransferData", 0, 1, << 7 >>)),
      Encode(Parsed("FileTransferAck", 1, 0, << >>)),
      Encode(Parsed("EndSession", 0, 0, << >>)),
      \* a data frame cut inside its fixed fields
      WireFrame(T_FileTransferData, WriteU32LE(0)),
      WireFrame(T_Presend, << 7 >>) }

PeerInject(e) ==
    /\ inject_left > 0
    /\ result[Peer(e)] = "raw"
    /\ closed[e].open
    /\ inject_left' = inject_left - 1
    /\ \E fr \in InjectFrames :
          /\ wire' = [wire EXCEPT ![e] = Append(@, fr)]
          /\ sent' = [sent EXCEPT ![Peer(e)] = Append(@, fr)]
    /\ UNCHANGED << handlers, result, err_frame_type, rd, active, dispatched, invoked,
                    completed, shutdown_ch >>
    /\ UNCHANGED << shutdown_res, shutdown_left, hs_task >>
    /\ UNCHANGED << senderVars, receiverVars, writeVars, auxVars >>

(***************************************************************************)
(* Spec: one session of the shipped client against the shipped server.     *)
(***************************************************************************)
EndpointInit(hs, res) ==
    /\ handlers = hs
    /\ result = res
    /\ wire = [e \in EP |-> << >>]
    /\ sent = [e \in EP |-> << >>]
    /\ err_frame_type = [e \in EP |-> 0]
    /\ rd = [e \in EP |-> "read"]
    /\ active = [e \in EP |-> {}]
    /\ dispatched = [e \in EP |-> << >>]
    /\ invoked = [e \in EP |-> << >>]
    /\ completed = [e \in EP |-> {}]
    /\ shutdown_ch = [e \in EP |-> 0]
    /\ shutdown_res = [e \in EP |-> "none"]

\* Faulty variant: the sender starts to send when it is constructed.
InitialTask_Sending == [pc |-> "running", ep |-> "client", segment_id |-> 0]

\* FileTransferNextHandler::new spawns nothing: the handler holds the file.
InitialTask == [pc |-> "none", ep |-> "client", segment_id |-> 0]

\* FileTransferNextHandler::new: cur_segment: 0.
InitialCurSegment == 0

HandlerInit(files) ==
    /\ file \in files
    /\ file_pos = 0
    /\ file_opt = TRUE
    /\ cur_segment = InitialCurSegment
    /\ task = InitialTask
    /\ events = << >>
    /\ out_file = << >>
    /\ out_flushed = FALSE
    /\ windowed_recv_segments = 0

\* No stream has been closed by a raw peer, and none is broken.
CloseIdle ==
    /\ closed = [e \in EP |-> OpenStream]
    /\ wr_fail = [e \in EP |-> FALSE]
    /\ send_res = [e \in EP |-> "none"]

CodecIdle ==
    /\ c_todo = << >>
    /\ c_pending = << >>
    /\ c_stream = << >>
    /\ c_sent = << >>
    /\ c_out = << >>

\* No discovery connection and no presend transfer.
DiscoveryIdle ==
    /\ hosts = << >>
    /\ d_pc = << >>
    /\ d_ip = << >>

PresendIdle ==
    /\ ps_file = << >>
    /\ ps_pc = "none"
    /\ ps_pos = 0
    /\ to_send = 0
    /\ ps_socket = << >>
    /\ total_bytes = 0
    /\ rs_pc = "none"
    /\ to_recv = 0
    /\ rs_got = << >>

LegacyIdle == DiscoveryIdle /\ PresendIdle

AcceptIdle ==
    /\ a_loop = "stopped"
    /\ a_conns = << >>
    /\ a_frames = << >>
    /\ a_errs = 0

WriteIdle ==
    /\ w_todo = << >>
    /\ w_pc = << >>
    /\ w_buf = << >>
    /\ w_lock = 0
    /\ w_stream = << >>
    /\ w_order = << >>

Init ==
    /\ EndpointInit([client |-> ClientHandlers, server |-> ServerHandlers],
                    [e \in EP |-> "running"])
    /\ HandlerInit(SourceFiles)
    /\ hs_task = "pending"
    /\ shutdown_left = 0
    /\ inject_left = 0
    /\ WriteIdle
    /\ LegacyIdle
    /\ CloseIdle /\ CodecIdle /\ AcceptIdle

Next ==
    \/ HandshakeTask
    \/ TaskSendSegment
    \/ \E e \in EP : Dispatch(e)
    \/ \E e \in EP : HandleHandshake(e)
    \/ \E e \in EP : HandleNext(e)
    \/ \E e \in EP : HandleReceiving(e)
    \/ \E e \in EP : HandleEndSession(e)
    \/ \E e \in EP : RunReturnOk(e)
    \/ \E e \in EP : ReadEof(e)

Spec == Init /\ [][Next]_vars

(***************************************************************************)
(* FairSpec: every task of the runtime that can take a step eventually     *)
(* takes one.                                                              *)
(***************************************************************************)
FairSpec ==
    /\ Spec
    /\ WF_vars(HandshakeTask)
    /\ WF_vars(TaskSendSegment)
    /\ \A e \in EP :
          /\ WF_vars(Dispatch(e))
          /\ WF_vars(HandleHandshake(e))
          /\ WF_vars(HandleNext(e))
          /\ WF_vars(HandleReceiving(e))
          /\ WF_vars(HandleEndSession(e))
          /\ WF_vars(RunReturnOk(e))
          /\ WF_vars(ReadEof(e))

(***************************************************************************)
(* DispatchSpec: the endpoint "server" runs an arbitrary registry; its     *)
(* peer is not an endpoint but writes arbitrary frames; an external holder *)
(* of the endpoint's handle calls shutdown().                              *)
(***************************************************************************)
\* A handler with state of its own is registered at most once.
StatefulKinds == {"FileTransferNext", "FileTransferReceiving"}

Registries ==
    { hs \in UNION {[1..n -> HandlerKinds] : n \in 0..MaxHandlers} :
        \A i, j \in 1..Len(hs) : (i # j /\ hs[i] = hs[j]) => hs[i] \notin StatefulKinds }

DispatchFiles == {Pattern(ChunkSize + 1)}

DispatchInit ==
    /\ \E hs \in Registries :
          EndpointInit([client |-> << >>, server |-> hs],
                       [client |-> "raw", server |-> "running"])
    /\ HandlerInit(DispatchFiles)
    /\ hs_task = "done"
    /\ shutdown_left = MaxShutdownCalls
    /\ inject_left = MaxInject
    /\ WriteIdle
    /\ LegacyIdle
    /\ CloseIdle /\ CodecIdle /\ AcceptIdle

DispatchNext ==
    \/ PeerInject("server")
    \/ ShutdownCall("server")
    \/ TaskSendSegment
    \/ Dispatch("server")
    \/ HandleHandshake("server")
    \/ HandleNext("server")
    \/ HandleReceiving("server")
    \/ HandleEndSession("server")
    \/ RunReturnOk("server")

DispatchSpec == DispatchInit /\ [][DispatchNext]_vars

(***************************************************************************)
(* TruncSpec: an endpoint with the registry of the server or of the client *)
(* whose raw peer writes frames and then closes the stream, at a frame     *)
(* boundary or inside a frame.                                             *)
(***************************************************************************)
\* The raw peer closes its write half, leaving an unfinished frame or none.
PeerClose(e) ==
    /\ result[Peer(e)] = "raw"
    /\ closed[e].open
    /\ \E c \in Cuts : closed' = [closed EXCEPT ![e] = c]
    /\ UNCHANGED << wr_fail, send_res >>
    /\ UNCHANGED << endpointVars, externVars, senderVars, receiverVars, writeVars,
                    codecVars, acceptVars,
                    legacyVars >>

TruncInit ==
    /\ \E hs \in {ServerHandlers, ClientHandlers} :
          EndpointInit([client |-> << >>, server |-> hs],
                       [client |-> "raw", server |-> "running"])
    /\ HandlerInit(DispatchFiles)
    /\ hs_task = "done"
    /\ shutdown_left = 0
    /\ inject_left = MaxInject
    /\ WriteIdle
    /\ LegacyIdle
    /\ CloseIdle /\ CodecIdle /\ AcceptIdle

TruncNext ==
    \/ PeerInject("server")
    \/ PeerClose("server")
    \/ TaskSendSegment
    \/ Dispatch("server")
    \/ HandleHandshake("server")
    \/ HandleNext("server")
    \/ HandleReceiving("server")
    \/ HandleEndSession("server")
    \/ RunReturnOk("server")
    \/ ReadEof("server")

TruncSpec == TruncInit /\ [][TruncNext]_vars

(***************************************************************************)
(* ReturnSpec: TruncSpec's endpoint and peer, and an external holder of    *)
(* the endpoint's handle that calls shutdown() at any moment: every way    *)
(* run can end.                                                            *)
(***************************************************************************)
ReturnInit ==
    /\ \E hs \in {ServerHandlers, ClientHandlers} :
          EndpointInit([client |-> << >>, server |-> hs],
                       [client |-> "raw", server |-> "running"])
    /\ HandlerInit(DispatchFiles)
    /\ hs_task = "done"
    /\ shutdown_left = MaxShutdownCalls
    /\ inject_left = MaxInject
    /\ WriteIdle
    /\ LegacyIdle
    /\ CloseIdle /\ CodecIdle /\ AcceptIdle

ReturnNext ==
    \/ PeerInject("server")
    \/ PeerClose("server")
    \/ ShutdownCall("server")
    \/ TaskSendSegment
    \/ Dispatch("server")
    \/ HandleHandshake("server")
    \/ HandleNext("server")
    \/ HandleReceiving("server")
    \/ HandleEndSession("server")
    \/ RunReturnOk("server")
    \/ ReadEof("server")

ReturnSpec == ReturnInit /\ [][ReturnNext]_vars

(***************************************************************************)
(* WriteSpec: EndpointHandle::send_frame, byte by byte.  Each task encodes *)
(* its frame, takes the stream_wr mutex, and write_all writes the buffer   *)
(* in one or more writes; the guard is dropped when send_frame returns.    *)
(***************************************************************************)
Producers == 1..NProducers

\* The frames the tasks send.
WFrames == { Parsed("EndSession", 0, 0, << >>), Parsed("FileTransferAck", 8, 0, << >>) }

\* Faulty variant: the stream is written without taking the mutex.
LockFree_Unguarded(holder) == TRUE

\* Mutex::lock completes when no task holds the guard.
LockFree(holder) == holder = 0

\* The decoder of handle_incoming_frames on a byte stream: the first frame and
\* the bytes after it, or no frame while the header or the payload is short.
ReadFrame(bytes) ==
    IF Len(bytes) < HeaderLen THEN [ok |-> FALSE, frame |-> WireFrame(0, << >>), rest |-> bytes]
    ELSE LET frame_type == ReadU16LE(SubSeq(bytes, 1, 2))
             frame_len == ReadU32LE(SubSeq(bytes, 3, 6))
         IN  IF Len(bytes) - HeaderLen < frame_len
             THEN [ok |-> FALSE, frame |-> WireFrame(0, << >>), rest |-> bytes]
             ELSE [ok |-> TRUE,
                   frame |-> WireFrame(frame_type,
                                       SubSeq(bytes, HeaderLen + 1, HeaderLen + frame_len)),
                   rest |-> SubSeq(bytes, HeaderLen + frame_len + 1, Len(bytes))]

\* The frames the read loop decodes from a byte stream, and the bytes left.
RECURSIVE ReadFrames(_)
ReadFrames(bytes) ==
    LET r == ReadFrame(bytes)
    IN  IF ~r.ok THEN [frames |-> << >>, rest |-> bytes]
        ELSE LET more == ReadFrames(r.rest)
             IN  [frames |-> << r.frame >> \o more.frames, rest |-> more.rest]

WEncode(p) ==
    /\ w_pc[p] = "idle"
    /\ w_todo[p] # << >>
    /\ w_buf' = [w_buf EXCEPT ![p] = FrameToBytes(Head(w_todo[p]))]
    /\ w_todo' = [w_todo EXCEPT ![p] = Tail(@)]
    /\ w_pc' = [w_pc EXCEPT ![p] = "lock"]
    /\ UNCHANGED << w_lock, w_stream, w_order >>
    /\ UNCHANGED << endpointVars, externVars, senderVars, receiverVars, auxVars >>

WLock(p) ==
    /\ w_pc[p] = "lock"
    /\ LockFree(w_lock)
    /\ w_lock' = p
    /\ w_pc' = [w_pc EXCEPT ![p] = "write"]
    /\ w_order' = Append(w_order, w_buf[p])
    /\ UNCHANGED << w_todo, w_buf, w_stream >>
    /\ UNCHANGED << endpointVars, externVars, senderVars, receiverVars, auxVars >>

\* Faulty variant: send_frame returns after the first write.
WriteDone_FirstWrite(k, buf) == TRUE

\* write_all returns when the whole buffer has been written.
WriteDone(k, buf) == k = Len(buf)

\* One write of write_all: at least one byte of what is left.
WWrite(p) ==
    /\ w_pc[p] = "write"
    /\ \E k \in 1..Len(w_buf[p]) :
          /\ w_stream' = w_stream \o SubSeq(w_buf[p], 1, k)
          /\ w_buf' = [w_buf EXCEPT ![p] = SubSeq(@, k + 1, Len(@))]
          /\ IF WriteDone(k, w_buf[p])
             THEN /\ w_pc' = [w_pc EXCEPT ![p] = "idle"]
                  /\ w_lock' = 0
             ELSE UNCHANGED << w_pc, w_lock >>
    /\ UNCHANGED << w_todo, w_order >>
    /\ UNCHANGED << endpointVars, externVars, senderVars, receiverVars, auxVars >>

WriteInit ==
    /\ EndpointInit([e \in EP |-> << >>], [e \in EP |-> "raw"])
    /\ HandlerInit({<< >>})
    /\ hs_task = "done"
    /\ shutdown_left = 0
    /\ inject_left = 0
    /\ w_todo \in [Producers -> [1..FramesPerProducer -> WFrames]]
    /\ w_pc = [p \in Producers |-> "idle"]
    /\ w_buf = [p \in Producers |-> << >>]
    /\ w_lock = 0
    /\ w_stream = << >>
    /\ w_order = << >>
    /\ LegacyIdle
    /\ CloseIdle /\ CodecIdle /\ AcceptIdle

WriteNext == \E p \in Producers : WEncode(p) \/ WLock(p) \/ WWrite(p)

WriteSpec == WriteInit /\ [][WriteNext]_vars

(***************************************************************************)
(* OrderSpec: WriteSpec's tasks, each sending frames of its own that no    *)
(* other task sends, so that the stream shows whose frame is where.        *)
(***************************************************************************)
\* The i-th frame of task p.
OrderFrame(p, i) == Parsed("FileTransferAck", 16 * p + i, 0, << >>)

OrderInit ==
    /\ EndpointInit([e \in EP |-> << >>], [e \in EP |-> "raw"])
    /\ HandlerInit({<< >>})
    /\ hs_task = "done"
    /\ shutdown_left = 0
    /\ inject_left = 0
    /\ w_todo = [p \in Producers |-> [i \in 1..FramesInOrder |-> OrderFrame(p, i)]]
    /\ w_pc = [p \in Producers |-> "idle"]
    /\ w_buf = [p \in Producers |-> << >>]
    /\ w_lock = 0
    /\ w_stream = << >>
    /\ w_order = << >>
    /\ LegacyIdle
    /\ CloseIdle /\ CodecIdle /\ AcceptIdle

OrderSpec == OrderInit /\ [][WriteNext]_vars

(***************************************************************************)
(* AcceptSpec: Server::run accepts connections; serve_client gives each    *)
(* one to a task of its own, which builds the endpoint and awaits its run. *)
(***************************************************************************)
\* How the task of a session ends: Endpoint::run returns Ok or one of its
\* errors, or a handler (or FileTransferReceivingHandler::new) panics.
SessionResults == {"ok", "err_io", "err_peer_closed", UnhandledResult, "panic"}

\* Faulty variant: serve_client awaits the session inside the accept loop, so
\* a panic of the session unwinds Server::run.
AcceptLoopAfter_Inline(how, loop) ==
    IF how = "panic" THEN "stopped" ELSE loop

\* The accept loop after a session has ended with `how`: the session is a
\* spawned task, its error is printed inside the task and its panic ends the
\* task alone (the JoinHandle is dropped).
AcceptLoopAfter(how, loop) ==
    loop

\* listener.accept() returns Ok: serve_client spawns the session.
Accept ==
    /\ a_loop = "accepting"
    /\ Len(a_conns) < MaxConns
    /\ a_conns' = Append(a_conns, "running")
    /\ a_frames' = Append(a_frames, 0)
    /\ UNCHANGED << a_loop, a_errs >>
    /\ UNCHANGED << endpointVars, externVars, senderVars, receiverVars, writeVars,
                    closeVars, codecVars,
                    legacyVars >>

\* listener.accept() returns Err: it is printed and the loop goes on.
AcceptError ==
    /\ a_loop = "accepting"
    /\ a_errs > 0
    /\ a_errs' = a_errs - 1
    /\ UNCHANGED << a_loop, a_conns, a_frames >>
    /\ UNCHANGED << endpointVars, externVars, senderVars, receiverVars, writeVars,
                    closeVars, codecVars,
                    legacyVars >>

\* The read loop of session i reads a frame and a handler handles it.
SessionFrame(i) ==
    /\ a_conns[i] = "running"
    /\ a_frames[i] < MaxSessionFrames
    /\ a_frames' = [a_frames EXCEPT ![i] = @ + 1]
    /\ UNCHANGED << a_loop, a_conns, a_errs >>
    /\ UNCHANGED << endpointVars, externVars, senderVars, receiverVars, writeVars,
                    closeVars, codecVars,
                    legacyVars >>

\* The task of session i ends.
SessionEnd(i) ==
    /\ a_conns[i] = "running"
    /\ \E how \in SessionResults :
          /\ a_conns' = [a_conns EXCEPT ![i] = how]
          /\ a_loop' = AcceptLoopAfter(how, a_loop)
    /\ UNCHANGED << a_frames, a_errs >>
    /\ UNCHANGED << endpointVars, externVars, senderVars, receiverVars, writeVars,
                    closeVars, codecVars,
                    legacyVars >>

AcceptInit ==
    /\ EndpointInit([e \in EP |-> << >>], [e \in EP |-> "raw"])
    /\ HandlerInit({<< >>})
    /\ hs_task = "done"
    /\ shutdown_left = 0
    /\ inject_left = 0
    /\ WriteIdle
    /\ LegacyIdle
    /\ CloseIdle /\ CodecIdle
    /\ a_loop = "accepting"
    /\ a_conns = << >>
    /\ a_frames = << >>
    /\ a_errs = MaxAcceptErrs

AcceptNext ==
    \/ Accept
    \/ AcceptError
    \/ \E i \in 1..Len(a_conns) : SessionFrame(i)
    \/ \E i \in 1..Len(a_conns) : SessionEnd(i)

AcceptSpec == AcceptInit /\ [][AcceptNext]_vars

(***************************************************************************)
(* CodecSpec: one task gives frames to send_frame, whose bytes reach the   *)
(* stream in one or two pieces; the read loop of the peer decodes the      *)
(* stream with its two read_exact calls.                                   *)
(***************************************************************************)
\* The frames written: every frame kind, with empty, short and long payloads
\* (a payload of more than 255 bytes has a length field of two non-zero bytes).
CodecFrames ==
    { Parsed("HandshakeRequest", 0, 0, ClientName),
      Parsed("HandshakeRequest", 0, 0, << >>),
      Parsed("HandshakeResponse", 0, 0, << >>),
      Parsed("FileTransferData", 0, 0, << >>),
      Parsed("FileTransferData", 1, 2, << 0, 255 >>),
      Parsed("FileTransferData", 258, 250, Pattern(250)),
      Parsed("FileTransferAck", 8, 0, << >>),
      Parsed("FileTransferAck", 65537, 0, << >>),
      Parsed("EndSession", 0, 0, << >>) }

\* Where the first piece of a frame's bytes may end.
CodecSplits == {3, 6, 8}

\* send_frame: the frame is encoded, and write_all starts to write it.
CSendFrame ==
    /\ c_todo # << >>
    /\ c_pending = << >>
    /\ LET buf == FrameToBytes(Head(c_todo))
       IN  \E k \in (CodecSplits \cap 1..Len(buf)) \cup {Len(buf)} :
              /\ c_stream' = c_stream \o SubSeq(buf, 1, k)
              /\ c_pending' = SubSeq(buf, k + 1, Len(buf))
    /\ c_sent' = Append(c_sent, Head(c_todo))
    /\ c_todo' = Tail(c_todo)
    /\ UNCHANGED c_out
    /\ UNCHANGED << endpointVars, externVars, senderVars, receiverVars, writeVars,
                    closeVars, acceptVars,
                    legacyVars >>

\* write_all writes the rest of the frame.
CWriteRest ==
    /\ c_pending # << >>
    /\ c_stream' = c_stream \o c_pending
    /\ c_pending' = << >>
    /\ UNCHANGED << c_todo, c_sent, c_out >>
    /\ UNCHANGED << endpointVars, externVars, senderVars, receiverVars, writeVars,
                    closeVars, acceptVars,
                    legacyVars >>

\* handle_incoming_frames: both read_exact calls have completed.
CReadFrame ==
    /\ ReadFrame(c_stream).ok
    /\ c_out' = Append(c_out, ReadFrame(c_stream).frame)
    /\ c_stream' = ReadFrame(c_stream).rest
    /\ UNCHANGED << c_todo, c_pending, c_sent >>
    /\ UNCHANGED << endpointVars, externVars, senderVars, receiverVars, writeVars,
                    closeVars, acceptVars,
                    legacyVars >>

CodecInit ==
    /\ EndpointInit([e \in EP |-> << >>], [e \in EP |-> "raw"])
    /\ HandlerInit({<< >>})
    /\ hs_task = "done"
    /\ shutdown_left = 0
    /\ inject_left = 0
    /\ WriteIdle
    /\ LegacyIdle
    /\ CloseIdle /\ AcceptIdle
    /\ c_todo \in UNION {[1..n -> CodecFrames] : n \in 0..MaxCodecFrames}
    /\ c_pending = << >>
    /\ c_stream = << >>
    /\ c_sent = << >>
    /\ c_out = << >>

CodecNext == CSendFrame \/ CWriteRest \/ CReadFrame

CodecSpec == CodecInit /\ [][CodecNext]_vars

(***************************************************************************)
(* RecvSpec: the endpoint Server::serve_client builds, against a raw peer  *)
(* that writes data frames: well-formed, terminal, and malformed ones.     *)
(* The read loop handles one frame at a time, so the peer writes the next  *)
(* frame when the endpoint has taken the one before.                       *)
(***************************************************************************)
RecvFrames ==
    { Encode(Parsed("FileTransferData", 0, 1, << 7 >>)),
      \* a terminal frame
      Encode(Parsed("FileTransferData", 3, 0, << >>)),
      \* chunk_size 2 with one byte of data
      WireFrame(T_FileTransferData, WriteU32LE(1) \o WriteU32LE(2) \o << 7 >>),
      \* a payload cut inside its fixed fields
      WireFrame(T_FileTransferData, WriteU32LE(0)) }

PeerSendData(e) ==
    /\ inject_left > 0
    /\ result[Peer(e)] = "raw"
    /\ result[e] = "running"
    /\ rd[e] = "read"
    /\ wire[e] = << >>
    /\ inject_left' = inject_left - 1
    /\ \E fr \in RecvFrames :
          /\ wire' = [wire EXCEPT ![e] = Append(@, fr)]
          /\ sent' = [sent EXCEPT ![Peer(e)] = Append(@, fr)]
    /\ UNCHANGED << handlers, result, err_frame_type, rd, active, dispatched, invoked,
                    completed, shutdown_ch >>
    /\ UNCHANGED << shutdown_res, shutdown_left, hs_task >>
    /\ UNCHANGED << senderVars, receiverVars, writeVars, auxVars >>

RecvInit ==
    /\ EndpointInit([client |-> << >>, server |-> ServerHandlers],
                    [client |-> "raw", server |-> "running"])
    /\ HandlerInit(DispatchFiles)
    /\ hs_task = "done"
    /\ shutdown_left = 0
    /\ inject_left = MaxRecvFrames
    /\ WriteIdle
    /\ LegacyIdle
    /\ CloseIdle /\ CodecIdle /\ AcceptIdle

RecvNext ==
    \/ PeerSendData("server")
    \/ Dispatch("server")
    \/ HandleReceiving("server")

RecvSpec == RecvInit /\ [][RecvNext]_vars

(***************************************************************************)
(* FailSpec: an endpoint with the registry of the server or of the client, *)
(* a raw peer that writes frames, a connection whose writes may start to   *)
(* fail, and an external holder of the endpoint's handle that calls        *)
(* send_frame() once and shutdown() once, at any moment.                   *)
(***************************************************************************)
\* From now on write_all on e's stream returns an Err.
StreamBreak(e) ==
    /\ ~wr_fail[e]
    /\ wr_fail' = [wr_fail EXCEPT ![e] = TRUE]
    /\ UNCHANGED << closed, send_res >>
    /\ UNCHANGED << endpointVars, externVars, senderVars, receiverVars, writeVars,
                    codecVars, acceptVars,
                    legacyVars >>

\* The external holder of e's handle calls send_frame: the write succeeds, or
\* its error is returned by the ? operator.
ExternalSend(e) ==
    /\ send_res[e] = "none"
    /\ result[e] # "raw"
    /\ send_res' = [send_res EXCEPT ![e] = SendOutcome(e)]
    /\ IF SendOutcome(e) = "ok"
       THEN SendFrame(e, Parsed("HandshakeRequest", 0, 0, ClientName))
       ELSE UNCHANGED << wire, sent >>
    /\ UNCHANGED << handlers, result, err_frame_type, rd, active, dispatched, invoked,
                    completed, shutdown_ch >>
    /\ UNCHANGED << closed, wr_fail >>
    /\ UNCHANGED << externVars, senderVars, receiverVars, writeVars, codecVars,
                    acceptVars, legacyVars >>

FailInit ==
    /\ \E hs \in {ServerHandlers, ClientHandlers} :
          EndpointInit([client |-> << >>, server |-> hs],
                       [client |-> "raw", server |-> "running"])
    /\ HandlerInit(DispatchFiles)
    /\ hs_task = "done"
    /\ shutdown_left = 1
    /\ inject_left = MaxInject
    /\ WriteIdle
    /\ LegacyIdle
    /\ CloseIdle /\ CodecIdle /\ AcceptIdle

FailNext ==
    \/ PeerInject("server")
    \/ StreamBreak("server")
    \/ ExternalSend("server")
    \/ ShutdownCall("server")
    \/ TaskSendSegment
    \/ Dispatch("server")
    \/ HandleHandshake("server")
    \/ HandleNext("server")
    \/ HandleReceiving("server")
    \/ HandleEndSession("server")
    \/ RunReturnOk("server")

FailSpec == FailInit /\ [][FailNext]_vars

(***************************************************************************)
(* PreemptSpec: an endpoint with the registry of the server or of the      *)
(* client, a raw peer that writes frames, and an external holder of the    *)
(* handle that calls shutdown(); every task of the runtime that can take a *)
(* step eventually takes one (the peer and the caller need not).           *)
(***************************************************************************)
PreemptInit ==
    /\ \E hs \in {ServerHandlers, ClientHandlers} :
          EndpointInit([client |-> << >>, server |-> hs],
                       [client |-> "raw", server |-> "running"])
    /\ HandlerInit(DispatchFiles)
    /\ hs_task = "done"
    /\ shutdown_left = MaxShutdownCalls
    /\ inject_left = MaxInject
    /\ WriteIdle
    /\ LegacyIdle
    /\ CloseIdle /\ CodecIdle /\ AcceptIdle

PreemptNext ==
    \/ PeerInject("server")
    \/ ShutdownCall("server")
    \/ TaskSendSegment
    \/ Dispatch("server")
    \/ HandleHandshake("server")
    \/ HandleNext("server")
    \/ HandleReceiving("server")
    \/ HandleEndSession("server")
    \/ RunReturnOk("server")

PreemptSpec ==
    /\ PreemptInit /\ [][PreemptNext]_vars
    /\ WF_vars(TaskSendSegment)
    /\ WF_vars(Dispatch("server"))
    /\ WF_vars(HandleHandshake("server"))
    /\ WF_vars(HandleNext("server"))
    /\ WF_vars(HandleReceiving("server"))
    /\ WF_vars(HandleEndSession("server"))
    /\ WF_vars(RunReturnOk("server"))

(***************************************************************************)
(* DiscoverySpec: DiscoveryServer::start accepts connections and spawns    *)
(* handle_connection for each; the tasks share the host registry behind a  *)
(* mutex.  Connections come from two addresses.                            *)
(***************************************************************************)
Peers == 1..MaxPeers
Addrs == {"10.0.0.1", "10.0.0.2"}

\* What Frame::read_from gives for the first frame of a connection: None, or
\* a frame with its type and whether its payload is a HandshakeMessage.
FirstFrames ==
    {[some |-> FALSE, frame_type |-> 0, json |-> FALSE]}
    \cup {[some |-> TRUE, frame_type |-> t, json |-> j] :
            t \in {HANDSHAKE_FRAME_TYPE, T_Presend}, j \in BOOLEAN}

\* HashMap::insert and HashMap::remove.
MapInsert(m, k, v) == [x \in DOMAIN m \cup {k} |-> IF x = k THEN v ELSE m[x]]
MapRemove(m, k) == [x \in DOMAIN m \ {k} |-> m[x]]

\* start's loop accepts connection c and spawns its task.
DAccept(c) ==
    /\ c \notin DOMAIN d_pc
    /\ c = Len(d_pc) + 1
    /\ d_pc' = Append(d_pc, "handshake")
    /\ \E ip \in Addrs : d_ip' = Append(d_ip, ip)
    /\ UNCHANGED hosts
    /\ UNCHANGED << endpointVars, externVars, senderVars, receiverVars, writeVars,
                    closeVars, codecVars, acceptVars, presendVars >>

\* handle_connection reads the first frame: it returns None unless the frame is
\* a handshake frame that parses.
DHandshake(c) ==
    /\ c \in DOMAIN d_pc
    /\ d_pc[c] = "handshake"
    /\ \E fr \in FirstFrames :
          d_pc' = [d_pc EXCEPT ![c] =
                     IF fr.some /\ fr.frame_type = HANDSHAKE_FRAME_TYPE /\ fr.json
                     THEN "registering" ELSE "failed"]
    /\ UNCHANGED << hosts, d_ip >>
    /\ UNCHANGED << endpointVars, externVars, senderVars, receiverVars, writeVars,
                    closeVars, codecVars, acceptVars, presendVars >>

\* Under the mutex: hosts.insert(remote_ip, HostInfo { .. }).
DRegister(c) ==
    /\ c \in DOMAIN d_pc
    /\ d_pc[c] = "registering"
    /\ hosts' = MapInsert(hosts, d_ip[c], c)
    /\ d_pc' = [d_pc EXCEPT ![c] = "polling"]
    /\ UNCHANGED d_ip
    /\ UNCHANGED << endpointVars, externVars, senderVars, receiverVars, writeVars,
                    closeVars, codecVars, acceptVars, presendVars >>

\* The polling loop wakes up and reads a frame: Some(frame) and the loop goes
\* on, or None and it breaks.
DPoll(c) ==
    /\ c \in DOMAIN d_pc
    /\ d_pc[c] = "polling"
    /\ \E alive \in BOOLEAN :
          d_pc' = [d_pc EXCEPT ![c] = IF alive THEN @ ELSE "dropped"]
    /\ UNCHANGED << hosts, d_ip >>
    /\ UNCHANGED << endpointVars, externVars, senderVars, receiverVars, writeVars,
                    closeVars, codecVars, acceptVars, presendVars >>

\* Under the mutex: hosts.remove(&remote_ip).
DUnregister(c) ==
    /\ c \in DOMAIN d_pc
    /\ d_pc[c] = "dropped"
    /\ hosts' = MapRemove(hosts, d_ip[c])
    /\ d_pc' = [d_pc EXCEPT ![c] = "done"]
    /\ UNCHANGED d_ip
    /\ UNCHANGED << endpointVars, externVars, senderVars, receiverVars, writeVars,
                    closeVars, codecVars, acceptVars, presendVars >>

DiscoveryInit ==
    /\ EndpointInit([e \in EP |-> << >>], [e \in EP |-> "raw"])
    /\ HandlerInit({<< >>})
    /\ hs_task = "done"
    /\ shutdown_left = 0
    /\ inject_left = 0
    /\ WriteIdle
    /\ CloseIdle /\ CodecIdle /\ AcceptIdle
    /\ PresendIdle
    /\ hosts = << >>
    /\ d_pc = << >>
    /\ d_ip = << >>

DiscoveryNext ==
    \E c \in Peers :
        DAccept(c) \/ DHandshake(c) \/ DRegister(c) \/ DPoll(c) \/ DUnregister(c)

DiscoverySpec == DiscoveryInit /\ [][DiscoveryNext]_vars

(***************************************************************************)
(* PresendSpec: FileSender::send_file sends the presend frame and then the *)
(* file in chunks; ReceivingServer::handle_connection reads the presend    *)
(* frame and then total_bytes bytes.  file.read and socket.read may return *)
(* fewer bytes than the buffer holds.                                      *)
(***************************************************************************)
PresendFiles == UNION {[1..L -> FileByte] : L \in 0..MaxSendLen}

\* vec![0 as u8; len]
ZeroBuf(len) == [i \in 1..len |-> 0]

\* The sizes a read into a buffer of buf_len bytes may return when `avail`
\* bytes are there to read: 0 at the end, at least one byte otherwise.
ReadSizes(buf_len, avail) ==
    IF avail = 0 \/ buf_len = 0 THEN {0} ELSE 1..Min(buf_len, avail)

\* The buffer after a read of n bytes of src from position pos.
ReadInto(buf, src, pos, n) ==
    [i \in 1..Len(buf) |-> IF i <= n THEN src[pos + i] ELSE buf[i]]

\* send_file writes the presend frame with total_bytes = file_len.
PSendPresend ==
    /\ ps_pc = "presend"
    /\ total_bytes' = Len(ps_file)
    /\ to_send' = Len(ps_file)
    /\ ps_pc' = "loop"
    /\ UNCHANGED << ps_file, ps_pos, ps_socket, rs_pc, to_recv, rs_got >>
    /\ UNCHANGED << endpointVars, externVars, senderVars, receiverVars, writeVars,
                    closeVars, codecVars, acceptVars, discoveryVars >>

\* One turn of send_file's loop: a read of the file into a fresh buffer, and
\* write_all of the buffer.
PSendChunk ==
    /\ ps_pc = "loop"
    /\ to_send > 0
    /\ LET buf_len == Min(to_send, PresendChunk)
       IN  \E n \in ReadSizes(buf_len, Len(ps_file) - ps_pos) :
              LET buf == ReadInto(ZeroBuf(buf_len), ps_file, ps_pos, n)
              IN  /\ ps_pos' = ps_pos + n
                  /\ IF n = 0
                     THEN /\ ps_pc' = "done"
                          /\ UNCHANGED << ps_socket, to_send >>
                     ELSE /\ ps_socket' = ps_socket \o buf
                          /\ to_send' = to_send - n
                          /\ UNCHANGED ps_pc
    /\ UNCHANGED << ps_file, total_bytes, rs_pc, to_recv, rs_got >>
    /\ UNCHANGED << endpointVars, externVars, senderVars, receiverVars, writeVars,
                    closeVars, codecVars, acceptVars, discoveryVars >>

\* The loop ends and send_file returns Ok: the socket is dropped.
PSendReturn ==
    /\ ps_pc = "loop"
    /\ to_send = 0
    /\ ps_pc' = "done"
    /\ UNCHANGED << ps_file, ps_pos, to_send, ps_socket, total_bytes, rs_pc, to_recv,
                    rs_got >>
    /\ UNCHANGED << endpointVars, externVars, senderVars, receiverVars, writeVars,
                    closeVars, codecVars, acceptVars, discoveryVars >>

\* handle_connection reads the presend frame.
PRecvPresend ==
    /\ rs_pc = "presend"
    /\ ps_pc # "presend"
    /\ to_recv' = total_bytes
    /\ rs_pc' = "loop"
    /\ UNCHANGED << ps_file, ps_pc, ps_pos, to_send, ps_socket, total_bytes, rs_got >>
    /\ UNCHANGED << endpointVars, externVars, senderVars, receiverVars, writeVars,
                    closeVars, codecVars, acceptVars, discoveryVars >>

\* One turn of handle_connection's loop: a read of the socket, which waits
\* while nothing is there and the sender has not closed.
PRecvChunk ==
    /\ rs_pc = "loop"
    /\ to_recv > 0
    /\ LET avail == Len(ps_socket) - Len(rs_got)
           buf_len == Min(to_recv, PresendChunk)
       IN  /\ avail > 0 \/ ps_pc = "done"
           /\ \E n \in ReadSizes(buf_len, avail) :
                 IF n = 0
                 THEN /\ rs_pc' = "failed"
                      /\ UNCHANGED << to_recv, rs_got >>
                 ELSE /\ rs_got' = rs_got \o SubSeq(ps_socket, Len(rs_got) + 1,
                                                    Len(rs_got) + n)
                      /\ to_recv' = to_recv - n
                      /\ UNCHANGED rs_pc
    /\ UNCHANGED << ps_file, ps_pc, ps_pos, to_send, ps_socket, total_bytes >>
    /\ UNCHANGED << endpointVars, externVars, senderVars, receiverVars, writeVars,
                    closeVars, codecVars, acceptVars, discoveryVars >>

\* The loop ends: socket.shutdown().
PRecvShutdown ==
    /\ rs_pc = "loop"
    /\ to_recv = 0
    /\ rs_pc' = "closed"
    /\ UNCHANGED << ps_file, ps_pc, ps_pos, to_send, ps_socket, total_bytes, to_recv,
                    rs_got >>
    /\ UNCHANGED << endpointVars, externVars, senderVars, receiverVars, writeVars,
                    closeVars, codecVars, acceptVars, discoveryVars >>

PresendInit ==
    /\ EndpointInit([e \in EP |-> << >>], [e \in EP |-> "raw"])
    /\ HandlerInit({<< >>})
    /\ hs_task = "done"
    /\ shutdown_left = 0
    /\ inject_left = 0
    /\ WriteIdle
    /\ CloseIdle /\ CodecIdle /\ AcceptIdle
    /\ DiscoveryIdle
    /\ ps_file \in PresendFiles
    /\ ps_pc = "presend"
    /\ ps_pos = 0
    /\ to_send = 0
    /\ ps_socket = << >>
    /\ total_bytes = 0
    /\ rs_pc = "presend"
    /\ to_recv = 0
    /\ rs_got = << >>

PresendNext ==
    \/ PSendPresend
    \/ PSendChunk
    \/ PSendReturn
    \/ PRecvPresend
    \/ PRecvChunk
    \/ PRecvShutdown

PresendSpec == PresendInit /\ [][PresendNext]_vars

(***************************************************************************)
(* Properties.                                                             *)
(***************************************************************************)
DataFramesOf(frames) == SelectSeq(frames, LAMBDA f : f.type = T_FileTransferData)
AckFramesOf(frames) == SelectSeq(frames, LAMBDA f : f.type = T_FileTransferAck)
SegmentIdxOf(wf) == ReadU32LE(SubSeq(wf.payload, 1, 4))
ChunkSizeOf(wf) == ReadU32LE(SubSeq(wf.payload, 5, 8))

\* The data frames the sender has emitted, in emission order.
SenderData == IF task.pc = "none" THEN << >> ELSE DataFramesOf(sent[task.ep])

\* The invocations of handlers of `kind` at e that have completed, as indices
\* into invoked[e].
CompletedOf(e, kind) ==
    { k \in 1..Len(invoked[e]) :
        /\ handlers[e][invoked[e][k].h] = kind
        /\ invoked[e][k].n \in completed[e] }

\* C1: round trip. The output file is at every moment a prefix of the source
\* file, and once the receiver has handled the terminal frame (it flushes), or
\* the client's run has returned Ok, the output file is the source file, byte
\* for byte.
C1_RoundTrip ==
    /\ Len(out_file) <= Len(file)
    /\ out_file = SubSeq(file, 1, Len(out_file))
    /\ (out_flushed \/ result["client"] = "ok") => out_file = file

\* A session has ended for a file of several chunks whose last chunk is short.
C1_Witness ==
    /\ result["client"] = "ok"
    /\ out_flushed
    /\ Len(file) = 2 * ChunkSize + 1
    /\ out_file = file

\* C2: segment monotonicity. The segment indices of the data frames the
\* sender emits are 1, 2, 3, ... in emission order, with no gap and no repeat;
\* a frame with chunk_size = 0 is the last data frame emitted (so there is at
\* most one, and none follows it, whatever arrives afterwards), and the sending
\* task ends only after it has emitted that frame.
C2_SegmentMonotonicity ==
    /\ \A i \in 1..Len(SenderData) :
          /\ SegmentIdxOf(SenderData[i]) = i
          /\ ChunkSizeOf(SenderData[i]) = 0 => i = Len(SenderData)
    /\ task.pc = "done" =>
          /\ Len(SenderData) >= 1
          /\ ChunkSizeOf(SenderData[Len(SenderData)]) = 0

\* C3: window bounds. The data frames sent and not yet covered by an ack never
\* exceed the peak window granted so far (8 on the HandshakeResponse, 8 more
\* per ack, at most 64); at most 8 data frames are emitted before the first ack
\* is received.
C3_WindowBounds ==
    LET acks == Cardinality({k \in CompletedOf("client", "FileTransferNext") :
                                dispatched["client"][invoked["client"][k].n].type
                                    = T_FileTransferAck})
        granted == IF task.pc = "none" THEN 0 ELSE Min(64, 8 + 8 * acks)
    IN  /\ Len(SenderData) - cur_segment <= granted
        /\ acks = 0 => Len(SenderData) <= 8

\* The non-terminal data frames the receiver at e has handled.
HandledSegments(e) ==
    Cardinality({k \in CompletedOf(e, "FileTransferReceiving") :
                    ChunkSizeOf(dispatched[e][invoked[e][k].n]) > 0})

\* C4: ack cadence. When the receiver has handled S non-terminal data frames
\* it has emitted exactly floor(S / 8) acks (the terminal frame adds none), and
\* its counter holds the remainder.
C4_AckCadence ==
    /\ Len(AckFramesOf(sent["server"])) = HandledSegments("server") \div 8
    /\ windowed_recv_segments = HandledSegments("server") % 8

\* The receiver has handled 17 data frames and the terminal frame, and has
\* emitted two acks.
C4_Witness ==
    /\ HandledSegments("server") = 17
    /\ out_flushed
    /\ Len(AckFramesOf(sent["server"])) = 2

\* C5: session completion. Once the receiver has handled the terminal frame
\* it has sent EndSession; in every fair session the client's run eventually
\* returns Ok and the server's run eventually returns too, and both stay
\* returned.
C5_SessionCompletes ==
    /\ [](out_flushed =>
            \E i \in 1..Len(sent["server"]) : sent["server"][i].type = T_EndSession)
    /\ <>[](result["client"] = "ok" /\ result["server"] # "running")

\* Both runs have returned after a transfer of several chunks: the client's
\* with Ok, the server's on the closed stream.
C5_Witness ==
    /\ result["client"] = "ok"
    /\ result["server"] = "err_io"
    /\ Len(file) > ChunkSize
    /\ out_flushed

RECURSIVE Flatten(_)
Flatten(bufs) == IF bufs = << >> THEN << >> ELSE Head(bufs) \o Flatten(Tail(bufs))

\* C7: write atomicity. The bytes on the stream are the frames of the tasks
\* that took the mutex, whole and in the order the mutex was taken, the last
\* one up to where its writer has got; whenever no write is in progress the
\* read loop's decoder splits the stream into exactly those frames, with no
\* byte left over.
C7_WriteAtomic ==
    /\ Len(w_stream) <= Len(Flatten(w_order))
    /\ w_stream = SubSeq(Flatten(w_order), 1, Len(w_stream))
    /\ (\A p \in Producers : w_pc[p] # "write") =>
          /\ ReadFrames(w_stream).rest = << >>
          /\ Len(ReadFrames(w_stream).frames) = Len(w_order)
          /\ \A i \in 1..Len(w_order) :
                ReadFrame(w_order[i]).frame = ReadFrames(w_stream).frames[i]

\* One task is in the middle of its frame while another waits for the mutex,
\* after a first frame has been written whole.
C7_Witness ==
    /\ Len(w_order) >= 1
    /\ \E p, q \in Producers :
          /\ w_pc[p] = "write"
          /\ w_pc[q] = "lock"
          /\ w_buf[p] # << >>
          /\ Len(w_stream) > 0

\* C8: sequential dispatch. Every endpoint decodes the frames in the order its
\* peer wrote them, it has at most one handler invocation in progress, and
\* when an invocation starts every earlier invocation has completed.
C8_SequentialDispatch ==
    \A e \in EP :
        /\ Len(dispatched[e]) <= Len(sent[Peer(e)])
        /\ dispatched[e] = SubSeq(sent[Peer(e)], 1, Len(dispatched[e]))
        /\ Cardinality(active[e]) <= 1
        /\ \A k \in 1..Len(invoked[e]) :
              /\ k < Len(invoked[e]) => invoked[e][k].n \in completed[e]
              /\ k > 1 => invoked[e][k - 1].n < invoked[e][k].n
        /\ \A a \in active[e] : a.n = invoked[e][Len(invoked[e])].n

\* A handler is in progress at an endpoint while the next frame has arrived
\* and waits on the stream.
C8_Witness ==
    \E e \in EP :
        /\ active[e] # {}
        /\ wire[e] # << >>
        /\ Len(sent[Peer(e)]) = Len(dispatched[e]) + 1

\* Some handler of the registry declares the frame type.
Declares(hs, t) == \E i \in 1..Len(hs) : t \in DeclaredTypes(hs[i])

\* The first handler of the registry, in registration order, that declares it.
FirstDeclaring(hs, t) ==
    CHOOSE i \in 1..Len(hs) :
        /\ t \in DeclaredTypes(hs[i])
        /\ \A j \in 1..(i - 1) : t \notin DeclaredTypes(hs[j])

C10_Unhandled ==
    \A e \in EP :
        /\ \A n \in 1..Len(dispatched[e]) :
              ~Declares(handlers[e], dispatched[e][n].type) =>
                  /\ n = Len(dispatched[e])
                  /\ result[e] = "err_unhandled"
                  /\ err_frame_type[e] = dispatched[e][n].type
                  /\ active[e] = {}
                  /\ \A k \in 1..Len(invoked[e]) : invoked[e][k].n # n
        /\ result[e] = "err_unhandled" =>
              /\ dispatched[e] # << >>
              /\ ~Declares(handlers[e], dispatched[e][Len(dispatched[e])].type)

\* run has ended on a frame of type 200 although the registry is not empty,
\* an earlier frame was handled, and a later frame is left unread.
C10_Witness ==
    /\ result["server"] = "err_unhandled"
    /\ err_frame_type["server"] = T_Presend
    /\ handlers["server"] # << >>
    /\ wire["server"] # << >>

\* The acks the sender has accepted, as the segment indices they carried.
AcceptedAcks ==
    [i \in 1..Len(SelectSeq(events, LAMBDA ev : ev.ev = "SegmentSent")) |->
        SelectSeq(events, LAMBDA ev : ev.ev = "SegmentSent")[i].segment_idx]

\* C11: ack validation. Every ack the sender has accepted carried a
\* segment_idx <= cur_segment as it was when the ack arrived (cur_segment is
\* InitialCurSegment before the first ack and the index of the previous
\* accepted ack afterwards), and a sender that has failed on an ack failed on
\* one with segment_idx > cur_segment.
C11_AckValidation ==
    /\ \A i \in 1..Len(AcceptedAcks) :
          AcceptedAcks[i] <= (IF i = 1 THEN InitialCurSegment ELSE AcceptedAcks[i - 1])
    /\ \A e \in EP :
          (/\ result[e] = "panic"
           /\ dispatched[e] # << >>
           /\ dispatched[e][Len(dispatched[e])].type = T_FileTransferAck
           /\ Len(dispatched[e][Len(dispatched[e])].payload) >= 4
           /\ Declares(handlers[e], T_FileTransferAck)
           /\ handlers[e][FirstDeclaring(handlers[e], T_FileTransferAck)] = "FileTransferNext")
              => SegmentIdxOf(dispatched[e][Len(dispatched[e])]) > cur_segment

\* C14: Complete event. The callback has been given at most one Complete
\* event, none before the terminal empty data frame was emitted, and once the
\* client's run has returned Ok it has been given exactly one.
C14_CompleteEvent ==
    LET completes == {i \in 1..Len(events) : events[i].ev = "Complete"}
    IN  /\ Cardinality(completes) <= 1
        /\ completes # {} =>
              \E i \in 1..Len(SenderData) : ChunkSizeOf(SenderData[i]) = 0
        /\ result["client"] = "ok" => Cardinality(completes) = 1

\* C16: end-session in the server role. At an endpoint with the registry of
\* Server::serve_client, an EndSession frame is given to a handler (the
\* end-session handler) and run does not end with the unhandled-frame error.
C16_ServerEndSession ==
    \A e \in EP :
        (result[e] # "raw" /\ handlers[e] = ServerHandlers) =>
            \A n \in 1..Len(dispatched[e]) :
                dispatched[e][n].type = T_EndSession =>
                    /\ result[e] # "err_unhandled"
                    /\ \E k \in 1..Len(invoked[e]) :
                          /\ invoked[e][k].n = n
                          /\ handlers[e][invoked[e][k].h] = "EndSession"

C18_SenderCounter ==
    task.pc # "done" =>
        cur_segment = (IF AcceptedAcks = << >> THEN 1
                       ELSE AcceptedAcks[Len(AcceptedAcks)])

\* C19: credit loop. While the sender is still producing the data frames that
\* an inbound frame set off, that frame is the last one its endpoint has
\* decoded: no later inbound frame is dispatched before the data frames are
\* on the wire.
C19_CreditLoop ==
    task.pc = "running" =>
        /\ dispatched[task.ep] # << >>
        /\ dispatched[task.ep][Len(dispatched[task.ep])].type = T_HandshakeResponse

\* C20: ack value. The k-th ack the receiver emits carries 8k + 1, the next
\* segment index it expects when segments are numbered from 1.
C20_AckValue ==
    \A k \in 1..Len(AckFramesOf(sent["server"])) :
        SegmentIdxOf(AckFramesOf(sent["server"])[k]) = 8 * k + 1

\* C12: truncated stream. When the peer has closed the stream inside a header
\* or inside a payload, run does not end with the generic I/O error (it ends
\* with the PeerClosed error), and the unfinished frame is given to no handler:
\* the endpoint has decoded no more frames than the peer wrote whole.
C12_TruncatedStream ==
    \A e \in EP :
        (~closed[e].open /\ closed[e].hdr > 0) =>
            /\ result[e] # "err_io"
            /\ Len(dispatched[e]) <= Len(sent[Peer(e)])

\* The bytes of the frames of a sequence, as send_frame writes them.
RECURSIVE BytesOf(_)
BytesOf(frames) ==
    IF frames = << >> THEN << >> ELSE FrameToBytes(Head(frames)) \o BytesOf(Tail(frames))

\* C15: framing round trip. The bytes of every frame written are its u16-LE
\* type, the u32-LE count of its payload bytes, and the payload; the reader
\* has decoded the frames written, in order, each with the type and the
\* payload of the frame written; and it has consumed exactly their bytes: what
\* is on the stream and still to be written is the bytes of the frames not
\* yet decoded.
C15_FramingRoundTrip ==
    /\ \A i \in 1..Len(c_sent) :
          LET buf == FrameToBytes(c_sent[i])
          IN  /\ Len(buf) = HeaderLen + Len(PayloadBytes(c_sent[i]))
              /\ ReadU16LE(SubSeq(buf, 1, 2)) = FrameType(c_sent[i])
              /\ ReadU32LE(SubSeq(buf, 3, 6)) = Len(buf) - HeaderLen
              /\ SubSeq(buf, HeaderLen + 1, Len(buf)) = PayloadBytes(c_sent[i])
    /\ Len(c_out) <= Len(c_sent)
    /\ \A i \in 1..Len(c_out) :
          c_out[i] = WireFrame(FrameType(c_sent[i]), PayloadBytes(c_sent[i]))
    /\ c_stream \o c_pending = BytesOf(SubSeq(c_sent, Len(c_out) + 1, Len(c_sent)))

\* Two frames have been written and decoded, the first with a payload of more
\* than 255 bytes, and nothing is left on the stream.
C15_Witness ==
    /\ Len(c_out) = 2
    /\ Len(c_out[1].payload) > 255
    /\ c_out[2].type = T_FileTransferAck
    /\ c_stream = << >>
    /\ c_todo = << >>

\* The sessions that have ended with an error or a panic.
FailedSessions == {i \in 1..Len(a_conns) : a_conns[i] \notin {"running", "ok"}}

ReceivingCompletes(a) ==
    /\ a \in active["server"]
    /\ handlers["server"][a.h] = "FileTransferReceiving"
    /\ a.n \in completed'["server"]

\* C21: terminal frame at the receiver. The step in which the receiver handles
\* a data frame with chunk_size = 0 writes exactly one frame, an EndSession
\* (so no ack), appends nothing to the output file and leaves
\* windowed_recv_segments as it was.
C21_TerminalFrame ==
    [][\A a \in active["server"] :
          (ReceivingCompletes(a) /\ a.frame.chunk_size = 0) =>
             /\ sent'["server"] =
                   Append(sent["server"], Encode(Parsed("EndSession", 0, 0, << >>)))
             /\ out_file' = out_file
             /\ windowed_recv_segments' = windowed_recv_segments]_vars

\* The receiver has handled a terminal frame after three data frames, and
\* data frames after it: its counter went on from 3.
C21_Witness ==
    /\ out_flushed
    /\ Len(sent["server"]) = 1
    /\ Len(out_file) = 5
    /\ windowed_recv_segments = 5
    /\ \E n \in 1..Len(dispatched["server"]) :
          /\ n = 4
          /\ ChunkSizeOf(dispatched["server"][n]) = 0

\* C22: receiver counter. windowed_recv_segments is always in [0, 8); a step
\* in which the receiver emits an ack leaves it 0, any other step in which the
\* receiver handles a non-terminal data frame adds one to it, and no other
\* step changes it: it is the number of non-terminal data frames handled since
\* the last ack (or since the start of the session).
C22_ReceiverCounter ==
    /\ [](windowed_recv_segments \in 0..(AckEvery - 1))
    /\ [][windowed_recv_segments' =
             IF Len(AckFramesOf(sent'["server"])) > Len(AckFramesOf(sent["server"]))
             THEN 0
             ELSE IF \E a \in active["server"] :
                        ReceivingCompletes(a) /\ a.frame.chunk_size > 0
                  THEN windowed_recv_segments + 1
                  ELSE windowed_recv_segments]_vars

\* The receiver has emitted an ack after eight data frames, and has handled
\* one more data frame since.
C22_Witness ==
    /\ Len(AckFramesOf(sent["server"])) = 1
    /\ windowed_recv_segments = 1
    /\ HandledSegments("server") = AckEvery + 1

\* A type-3 payload with fewer bytes after the two u32 fields than chunk_size.
ShortData(wf) ==
    /\ wf.type = T_FileTransferData
    /\ \/ Len(wf.payload) < 8
       \/ Len(wf.payload) - 8 < ChunkSizeOf(wf)

\* C26: data-frame parsing. A type-3 payload with fewer bytes after the two
\* u32 fields than its chunk_size (or shorter than 8 bytes) is handed to no
\* handler and ends the session, and the output file holds exactly the data
\* bytes the well-formed frames carried.
C26_DataParse ==
    /\ \A n \in 1..Len(dispatched["server"]) :
          ShortData(dispatched["server"][n]) =>
             /\ \A k \in 1..Len(invoked["server"]) : invoked["server"][k].n # n
             /\ result["server"] \notin {"running", "ok"}
    /\ Len(out_file) =
          Cardinality({k \in CompletedOf("server", "FileTransferReceiving") :
                         LET wf == dispatched["server"][invoked["server"][k].n]
                         IN  ~ShortData(wf) /\ ChunkSizeOf(wf) > 0})

\* run has returned an Err.
ErrResults == {"err_io", "err_peer_closed", UnhandledResult}

\* The invocation a of the sender is for a HandshakeResponse, and the sender
\* has handled a HandshakeResponse before.
DuplicateHandshake(e, a) ==
    /\ handlers[e][a.h] = "FileTransferNext"
    /\ a.frame.k = "HandshakeResponse"
    /\ \E k \in CompletedOf(e, "FileTransferNext") :
          dispatched[e][invoked[e][k].n].type = T_HandshakeResponse

\* C23: duplicate handshake. The step in which the sender's handler ends for a
\* second HandshakeResponse (run has not been shut down meanwhile) makes run
\* return an Err, starts no sending task and leaves the file where it was.
C23_DuplicateHandshake ==
    [][\A a \in active["server"] :
          (/\ DuplicateHandshake("server", a)
           /\ a \notin active'["server"]
           /\ shutdown_ch' = shutdown_ch) =>
             /\ result'["server"] \in ErrResults
             /\ task' = task
             /\ file_pos' = file_pos
             /\ file_opt' = file_opt]_vars

\* The frames e has read before a handler of e took a handshake frame.
BeforeHandshake(e) ==
    { n \in 1..Len(dispatched[e]) :
        \A k \in 1..Len(invoked[e]) :
            (/\ invoked[e][k].n < n
             /\ dispatched[e][invoked[e][k].n].type
                   \in {T_HandshakeRequest, T_HandshakeResponse})
                => invoked[e][k].n \notin completed[e] }

\* C24: data before handshake. A FileTransferData or FileTransferAck frame read
\* before the handshake has completed is handed to no handler and makes run
\* return an Err; and as long as no handshake has completed the output file is
\* empty, the endpoint has sent nothing and the sender has recorded no ack.
C24_DataBeforeHandshake ==
    /\ \A n \in BeforeHandshake("server") :
          dispatched["server"][n].type \in {T_FileTransferData, T_FileTransferAck} =>
             /\ \A k \in 1..Len(invoked["server"]) : invoked["server"][k].n # n
             /\ result["server"] \in ErrResults
    /\ (CompletedOf("server", "Handshake") = {}
            /\ CompletedOf("server", "FileTransferNext") = {}) =>
          /\ out_file = << >>
          /\ sent["server"] = << >>
          /\ events = << >>

\* The invocation a is of a handler that is about to call send_frame.
HandlerSends(e, a) ==
    \/ handlers[e][a.h] = "Handshake"
    \/ /\ handlers[e][a.h] = "FileTransferReceiving"
       /\ \/ a.frame.chunk_size = 0
          \/ windowed_recv_segments + 1 >= AckEvery

\* C25: write failure. A send_frame whose stream write fails returns an Err to
\* its caller, and the step leaves run running: when the caller is the
\* external holder of the handle its result is "err" and nothing else changes,
\* and when the caller is a handler the read loop goes on to the next frame.
C25_WriteFailure ==
    [][/\ (wr_fail["server"] /\ send_res["server"] = "none"
              /\ send_res'["server"] # "none") =>
             /\ send_res'["server"] = "err"
             /\ result' = result
             /\ sent' = sent
       /\ \A a \in active["server"] :
             (/\ wr_fail["server"]
              /\ HandlerSends("server", a)
              /\ a \notin active'["server"]
              /\ shutdown_ch' = shutdown_ch) =>
                /\ result'["server"] = "running"
                /\ rd'["server"] = "read"]_vars

\* C30: operations on a terminated endpoint. A shutdown() or send_frame() call
\* on the handle of an endpoint whose run has returned gives its caller an
\* error, and writes nothing to the stream.
C30_TerminatedEndpoint ==
    [][result["server"] \notin {"running", "raw"} =>
          /\ shutdown_left' # shutdown_left => shutdown_res'["server"] = "closed"
          /\ send_res'["server"] # send_res["server"] =>
                /\ send_res'["server"] = "err"
                /\ sent'["server"] = sent["server"]]_vars

\* C27: chunking. For a file of L bytes the sender emits ceil(L / ChunkSize)
\* + 1 data frames, whatever the reads of the file return: frame i carries the
\* i-th ChunkSize bytes of the file (the last non-terminal frame the L %
\* ChunkSize bytes that are left, when that is not 0), its chunk_size is the
\* length of its data, and the frame after the last byte is empty and is the
\* last one; the sending task ends after that frame and not before.
C27_Chunking ==
    LET L == Len(file)
        chunks == (L + ChunkSize - 1) \div ChunkSize
    IN  /\ Len(SenderData) <= chunks + 1
        /\ \A i \in 1..Len(SenderData) :
              LET payload == SenderData[i].payload
                  from == (i - 1) * ChunkSize
              IN  /\ ChunkSizeOf(SenderData[i]) = Len(payload) - 8
                  /\ ChunkSizeOf(SenderData[i]) =
                        IF from >= L THEN 0 ELSE Min(ChunkSize, L - from)
                  /\ SubSeq(payload, 9, Len(payload)) =
                        SubSeq(file, from + 1, from + Len(payload) - 8)
        /\ task.pc = "done" <=> Len(SenderData) = chunks + 1

\* The sending task has ended for a file of two full chunks and a short one,
\* with four data frames.
C27_Witness ==
    /\ task.pc = "done"
    /\ Len(file) = 2 * ChunkSize + 1
    /\ Len(SenderData) = 4
    /\ ChunkSizeOf(SenderData[3]) = 1
    /\ ChunkSizeOf(SenderData[4]) = 0

\* The payload bytes of a sequence of data frames.
RECURSIVE SumChunkSizes(_)
SumChunkSizes(frames) ==
    IF frames = << >> THEN 0
    ELSE ChunkSizeOf(Head(frames)) + SumChunkSizes(Tail(frames))

\* The acks the sender has handled.
HandledAcks ==
    {k \in CompletedOf("client", "FileTransferNext") :
        dispatched["client"][invoked["client"][k].n].type = T_FileTransferAck}

\* C28: SegmentSent event. The sender has passed one event to the callback
\* for each ack it has handled; the event of an ack is SegmentSent(cur_segment
\* - 1, bytes_sent) with bytes_sent the payload bytes of the data frames the
\* sender has written up to then, and never less than the event before.
C28_SegmentSentEvent ==
    /\ [](Len(events) = Cardinality(HandledAcks))
    /\ [][Len(events') > Len(events) =>
             LET last == events'[Len(events')]
             IN  /\ Len(events') = Len(events) + 1
                 /\ last.ev = "SegmentSent"
                 /\ last.segment_idx = cur_segment' - 1
                 /\ last.bytes_sent = SumChunkSizes(SenderData)
                 /\ events # << >> =>
                       last.bytes_sent >= events[Len(events)].bytes_sent]_vars

\* A shutdown token is in the channel of the running endpoint.
TokenPosted == result["server"] = "running" /\ shutdown_ch["server"] > 0

\* Nothing is inbound and nothing will be: the read loop is blocked in a read.
ReaderBlocked ==
    /\ rd["server"] = "read"
    /\ wire["server"] = << >>
    /\ inject_left = 0

FramesOfTask(frames, p) ==
    SelectSeq(frames, LAMBDA f :
        \E i \in 1..FramesInOrder : f = Encode(OrderFrame(p, i)))

\* C31: per-producer write order. The stream holds the frames whole, in the
\* order in which their senders took the mutex; and the frames of one task
\* are on the stream in the order of its send_frame calls, each one entirely
\* before the next, whatever the other tasks write in between.
C31_ProducerOrder ==
    LET decoded == ReadFrames(w_stream).frames
    IN  /\ w_stream = SubSeq(Flatten(w_order), 1, Len(w_stream))
        /\ \A i \in 1..Len(decoded) : decoded[i] = ReadFrame(w_order[i]).frame
        /\ \A p \in Producers :
              LET mine == FramesOfTask(decoded, p)
              IN  /\ Len(mine) <= FramesInOrder
                  /\ \A i \in 1..Len(mine) : mine[i] = Encode(OrderFrame(p, i))
                  /\ Len(mine) >= FramesInOrder - Len(w_todo[p]) - 1
                  /\ (w_pc[p] = "idle") => Len(mine) = FramesInOrder - Len(w_todo[p])

\* Task 1 has sent both its frames, and a frame of task 2 is between them on
\* the stream.
C31_Witness ==
    LET decoded == ReadFrames(w_stream).frames
    IN  /\ Len(decoded) = 3
        /\ decoded[1] = Encode(OrderFrame(1, 1))
        /\ decoded[2] = Encode(OrderFrame(2, 1))
        /\ decoded[3] = Encode(OrderFrame(1, 2))

\* Nobody has posted a shutdown token on the server's channel yet: no handle
\* has called shutdown(), and no EndSession handler has been invoked.
NeverShutDown ==
    /\ shutdown_left = MaxShutdownCalls
    /\ \A k \in 1..Len(invoked["server"]) :
          handlers["server"][invoked["server"][k].h] # "EndSession"

HandlerPostedToken ==
    /\ result["server"] = "running"
    /\ \E k \in 1..Len(invoked["server"]) :
          /\ handlers["server"][invoked["server"][k].h] = "EndSession"
          /\ invoked["server"][k].n \in completed["server"]

\* C33: after a handler has posted the shutdown token, the endpoint reads no
\* further frame off the stream and hands none to a handler before run returns.
C33_NoDispatchAfterToken ==
    [][HandlerPostedToken =>
          /\ dispatched'["server"] = dispatched["server"]
          /\ invoked'["server"] = invoked["server"]]_vars

\* The segment indices of the acks the receiver has written, in order.
AckIndices ==
    [k \in 1..Len(AckFramesOf(sent["server"])) |->
        SegmentIdxOf(AckFramesOf(sent["server"])[k])]

\* C34: in a session of the shipped sender with the shipped receiver the
\* sender's sanity check of an ack never fires: the acks carry strictly
\* increasing segment indices, no ack handed to the sender's handler is below
\* cur_segment, the sender does not panic, and cur_segment never decreases.
C34_AckSanity ==
    /\ [](\A k \in 1..Len(AckIndices) : k > 1 => AckIndices[k - 1] < AckIndices[k])
    /\ [](\A a \in active["client"] :
            a.frame.k = "FileTransferAck" =>
                ~AckUnexpected(a.frame.segment_idx, cur_segment))
    /\ [](result["client"] # "panic")
    /\ [][cur_segment' >= cur_segment]_vars

\* The sender has accepted two acks, the second above the first.
C34_Witness ==
    /\ Len(AcceptedAcks) = 2
    /\ AcceptedAcks[1] < AcceptedAcks[2]
    /\ cur_segment = AcceptedAcks[2]

\* A connection from ip has registered and has not been detected as dropped.
LiveFrom(ip) == \E c \in DOMAIN d_pc : d_ip[c] = ip /\ d_pc[c] = "polling"

\* A connection from ip has been detected as dropped and its task has not
\* taken the registry mutex yet.
LeavingFrom(ip) == \E c \in DOMAIN d_pc : d_ip[c] = ip /\ d_pc[c] = "dropped"

\* C35: the registry follows the live connections. An address with a live
\* connection has an entry, also when another connection from that address
\* has dropped; and an address has an entry only while a connection from it
\* is live (or is on its way to removing the entry).
C35_RegistryTracksLive ==
    \A ip \in Addrs :
        /\ LiveFrom(ip) => ip \in DOMAIN hosts
        /\ ip \in DOMAIN hosts => (LiveFrom(ip) \/ LeavingFrom(ip))

\* C36: after the presend frame send_file writes the file's bytes and nothing
\* else. What is on the socket is at every moment the part of the file read
\* so far, when send_file has returned it is the whole file (total_bytes
\* bytes), and when the receiving server closes the socket it has read exactly
\* the file's bytes.
C36_ExactBytes ==
    /\ ps_socket = SubSeq(ps_file, 1, ps_pos)
    /\ ps_pc = "done" => (Len(ps_socket) = total_bytes /\ ps_socket = ps_file)
    /\ rs_pc = "closed" => rs_got = ps_file

====
